---- MODULE Spec2Model ----
(***************************************************************************)
(* Transit detection engine of astroreflect-api                            *)
(* (src/src/services/ephemeris/transitService.ts and transitTypeService.ts)*)
(*                                                                         *)
(* Representation                                                          *)
(*   Date      an integer number of ticks since 2025-10-01T00:00 local     *)
(*             time; a day has TicksPerDay ticks and one tick stands for    *)
(*             the resolution of getTime(), so that 23:59:59.999 is the    *)
(*             last tick of a day.  The local zone has no DST.             *)
(*   longitude integer degrees; speed in tenths of a degree per day.       *)
(*   number    a rational <<n, d>> with d > 0 where the code computes with *)
(*             fractions (durations in days, intensity).                   *)
(*   string id the sequence of its "_"-separated parts.                    *)
(***************************************************************************)
EXTENDS Integers, Sequences, FiniteSets, TLC

VARIABLES
  nodeEnv,    \* process.env.NODE_ENV of the running process
  startEnv,   \* process.env.NODE_ENV the process was started with
  oracle,     \* the ephemeris behind sweph.calc_ut (a scenario record)
  pc,         \* "idle", "returned", or the loop the process is inside
  call,       \* the call in progress / last made
  result,     \* what the call returned: [threw |-> BOOLEAN, value |-> ...]
  frame       \* the local variables of the loop the process is inside

vars == <<nodeEnv, startEnv, oracle, pc, call, result, frame>>

-----------------------------------------------------------------------------
(* Bounds of the model *)

HalfDay == 2                    \* ticks in 12 hours
MaxMoment == 4                  \* the classifiers are called with moments 0..MaxMoment
TicksPerDay == 2 * HalfDay

-----------------------------------------------------------------------------
(* Enumerations (models/types) *)

UNDEFINED == "undefined"

Planet == <<"SUN", "MOON", "MERCURY", "VENUS", "MARS", "JUPITER", "SATURN",
            "URANUS", "NEPTUNE", "PLUTO">>

Aspect == <<"Conjunction", "Sextile", "Square", "Trine", "Opposition">>

ZodiacSign == <<"Aries", "Taurus", "Gemini", "Cancer", "Leo", "Virgo", "Libra",
                "Scorpio", "Sagittarius", "Capricorn", "Aquarius", "Pisces">>

TransitSubtype == [STANDARD |-> "Standard", RETROGRADE |-> "Retrograde",
                   DIRECT |-> "Direct", STATION |-> "Station",
                   INGRESS |-> "Ingress", TRANSIT |-> "Transit"]

TransitTiming == [ACTIVE |-> "Active", APPLYING |-> "Applying",
                  SEPARATING |-> "Separating", UPCOMING |-> "Upcoming"]

Range(s) == {s[i] : i \in 1..Len(s)}

Planets == Range(Planet)
Aspects == Range(Aspect)

-----------------------------------------------------------------------------
(* Arithmetic of the JavaScript runtime *)

Abs(x) == IF x < 0 THEN -x ELSE x
Min(a, b) == IF a <= b THEN a ELSE b

\* a % m of JavaScript: the result has the sign of the dividend
JsMod(a, m) == IF a >= 0 THEN a % m ELSE -((-a) % m)

\* ToIntegerOrInfinity(n/d), d > 0: truncation towards zero
Trunc(n, d) == IF n >= 0 THEN n \div d ELSE -((-n) \div d)

\* Math.floor(n/d) and Math.ceil(n/d), d > 0
Floor(n, d) == n \div d
Ceil(n, d) == -((-n) \div d)

\* y, after x has been evaluated: a loop computes the value of one iteration
\* before it enters the next
Then(x, y) == IF x = x THEN y ELSE y

-----------------------------------------------------------------------------
(* Aspect orbs and angles *)

ASPECT_ORBS ==
  [Conjunction |-> [default |-> 8, luminaries |-> 10, personal |-> 7, social |-> 6, outer |-> 5],
   Opposition  |-> [default |-> 8, luminaries |-> 10, personal |-> 7, social |-> 6, outer |-> 5],
   Trine       |-> [default |-> 7, luminaries |-> 8,  personal |-> 6, social |-> 5, outer |-> 4],
   Square      |-> [default |-> 7, luminaries |-> 8,  personal |-> 6, social |-> 5, outer |-> 4],
   Sextile     |-> [default |-> 4, luminaries |-> 5,  personal |-> 3, social |-> 3, outer |-> 2]]

\* getAspectOrb looking at the category of planetA only
getAspectOrbA(planetA, planetB, aspect) ==
  LET luminaries == {"SUN", "MOON"}
      personal == {"MERCURY", "VENUS", "MARS"}
      social == {"JUPITER", "SATURN"}
  IN  IF planetA \in luminaries THEN ASPECT_ORBS[aspect].luminaries
      ELSE IF planetA \in personal THEN ASPECT_ORBS[aspect].personal
      ELSE IF planetA \in social THEN ASPECT_ORBS[aspect].social
      ELSE ASPECT_ORBS[aspect].outer

getAspectOrb(planetA, planetB, aspect) ==
  LET luminaries == {"SUN", "MOON"}
      personal == {"MERCURY", "VENUS", "MARS"}
      social == {"JUPITER", "SATURN"}
  IN  IF planetA \in luminaries \/ planetB \in luminaries
        THEN ASPECT_ORBS[aspect].luminaries
      ELSE IF planetA \in personal \/ planetB \in personal
        THEN ASPECT_ORBS[aspect].personal
      ELSE IF planetA \in social \/ planetB \in social
        THEN ASPECT_ORBS[aspect].social
      ELSE ASPECT_ORBS[aspect].outer

ASPECT_ANGLES == [Conjunction |-> 0, Sextile |-> 60, Square |-> 90,
                  Trine |-> 120, Opposition |-> 180]

\* checkAspect with < for <= in the orb check
checkAspectStrict(longitudeA, longitudeB, aspect, planetA, planetB) ==
  LET targetAngle == ASPECT_ANGLES[aspect]
      orb == getAspectOrb(planetA, planetB, aspect)
      normLongA == JsMod(JsMod(longitudeA, 360) + 360, 360)
      normLongB == JsMod(JsMod(longitudeB, 360) + 360, 360)
      d0 == Abs(normLongA - normLongB)
      diff == IF d0 > 180 THEN 360 - d0 ELSE d0
  IN  Abs(diff - targetAngle) < orb

checkAspect(longitudeA, longitudeB, aspect, planetA, planetB) ==
  LET targetAngle == ASPECT_ANGLES[aspect]
      orb == getAspectOrb(planetA, planetB, aspect)
      normLongA == JsMod(JsMod(longitudeA, 360) + 360, 360)
      normLongB == JsMod(JsMod(longitudeB, 360) + 360, 360)
      d0 == Abs(normLongA - normLongB)
      diff == IF d0 > 180 THEN 360 - d0 ELSE d0
  IN  Abs(diff - targetAngle) <= orb

-----------------------------------------------------------------------------
(* Date: ticks since 2025-10-01T00:00 local time *)

Day(n) == n * TicksPerDay

SEVEN_DAYS == Day(7)            \* 7 * 24 * 60 * 60 * 1000
dayStep == Day(1)               \* 86400000
TWELVE_HOURS == HalfDay

\* lengths of the months October 2025 .. March 2026
MonthLengths == <<31, 30, 31, 31, 28, 31>>

Year2026 == Day(31 + 30 + 31)   \* 2026-01-01T00:00

getFullYear(date) == IF date < Year2026 THEN 2025 ELSE 2026

RECURSIVE DayOfMonthFrom(_, _)
DayOfMonthFrom(dayIndex, month) ==
  IF month >= Len(MonthLengths) \/ dayIndex < MonthLengths[month]
    THEN dayIndex + 1
    ELSE DayOfMonthFrom(dayIndex - MonthLengths[month], month + 1)

\* Date.prototype.getDate
getDate(date) == DayOfMonthFrom(date \div TicksPerDay, 1)

\* Date.prototype.setDate(n/d): the day of the month becomes the integer
\* part of n/d, the month and the time within the day are kept
setDate(date, n, d) == date + (Trunc(n, d) - getDate(date)) * TicksPerDay

\* date.setDate(date.getDate() + n/d)
addDays(date, n, d) == setDate(date, d * getDate(date) + n, d)

\* Date.prototype.setHours(0, 0, 0, 0) and setHours(23, 59, 59, 999)
startOfDay(date) == (date \div TicksPerDay) * TicksPerDay
endOfDay(date) == (date \div TicksPerDay) * TicksPerDay + (TicksPerDay - 1)

\* new Date(start + (i * (end - start)) / steps): the time value is truncated
sampleDate(startDate, endDate, i, steps) ==
  startDate + Trunc(i * (endDate - startDate), steps)

-----------------------------------------------------------------------------
(* The position oracle: sweph.calc_ut behind getPlanetPositionAtDate *)

RefDate == Day(80)              \* 2025-12-20T00:00
StationDate == Day(95) + 2      \* where the speed of the station modes is 0
FailDate == Day(99)             \* from here on the "late" oracle fails

BaseLongitude ==
  [A |-> [SUN |-> 0, MOON |-> 60, MERCURY |-> 2, VENUS |-> 120, MARS |-> 90,
          JUPITER |-> 180, SATURN |-> 30, URANUS |-> 150, NEPTUNE |-> 240,
          PLUTO |-> 270],
   B |-> [SUN |-> 355, MOON |-> 87, MERCURY |-> 5, VENUS |-> 485, MARS |-> -10,
          JUPITER |-> 100, SATURN |-> 200, URANUS |-> 47, NEPTUNE |-> 301,
          PLUTO |-> 302]]

DailyMotion ==
  [SUN |-> 1, MOON |-> 13, MERCURY |-> 2, VENUS |-> 1, MARS |-> 1,
   JUPITER |-> 0, SATURN |-> 0, URANUS |-> 0, NEPTUNE |-> 0, PLUTO |-> 0]

Oracles ==
  [cfg : {"A", "B"}, moving : BOOLEAN,
   speedMode : {"direct", "retrograde", "slow", "stationR", "stationD"},
   failMode : {"none", "all", "mercury", "late", "others"}]

\* does sweph.calc_ut throw (or return no data) for this planet and date
calcFails(orc, planet, date) ==
  \/ orc.failMode = "all"
  \/ orc.failMode = "mercury" /\ planet = "MERCURY"
  \/ orc.failMode = "late" /\ date >= FailDate
  \/ orc.failMode = "others" /\ planet # "MERCURY"

\* result.data[0]
calcLongitude(orc, planet, date) ==
  BaseLongitude[orc.cfg][planet]
    + (IF orc.moving
         THEN Floor(DailyMotion[planet] * (date - RefDate), TicksPerDay)
         ELSE 0)

\* result.data[3], in tenths of a degree per day
calcSpeed(orc, planet, date) ==
  CASE orc.speedMode = "direct" -> 10
    [] orc.speedMode = "retrograde" -> -10
    [] orc.speedMode = "slow" -> -1
    [] orc.speedMode = "stationR" -> StationDate - date
    [] orc.speedMode = "stationD" -> date - StationDate

getPlanetPositionAtDate(orc, planet, date) ==
  IF calcFails(orc, planet, date)
    THEN [threw |-> TRUE]
    ELSE [threw |-> FALSE,
          longitude |-> JsMod(calcLongitude(orc, planet, date), 360),
          speed |-> calcSpeed(orc, planet, date)]

ZODIAC_BOUNDARIES ==
  [i \in 1..12 |-> [sign |-> ZodiacSign[i], start |-> 30 * (i - 1), end |-> 30 * i]]

\* [threw |-> TRUE] when no band contains the longitude
getZodiacSign(longitude) ==
  LET normLongitude == JsMod(longitude, 360)
      found == {i \in 1..12 : normLongitude >= ZODIAC_BOUNDARIES[i].start
                              /\ normLongitude < ZODIAC_BOUNDARIES[i].end}
  IN  IF found = {}
        THEN [threw |-> TRUE]
        ELSE [threw |-> FALSE, sign |-> ZODIAC_BOUNDARIES[CHOOSE i \in found : TRUE].sign]

\* getRetrogadeStatus(planet, longitude, speedLong).isRetrograde of the position
\* service, the speed being in tenths of a degree per day
getRetrogadeStatus(planet, longitude, speedLong) ==
  CASE planet = "MERCURY" -> speedLong < -1               \* speedLong < -0.1
    [] planet \in {"VENUS", "MARS"} -> 2 * speedLong < -1 \* speedLong < -0.05
    [] OTHER -> speedLong < 0

\* speed < threshold, the speed being in tenths of a degree per day
isRetrograde(planet, position) ==
  LET threshold == IF planet = "MERCURY" THEN -2 ELSE 0
  IN  position.speed < threshold

-----------------------------------------------------------------------------
(* Searches *)

steps == 20                     \* default of findExactAspectDate / findStationDate

\* the loop of findExactAspectDate from sample i on
RECURSIVE ExactAspectLoop(_, _, _, _, _, _, _, _, _)
ExactAspectLoop(orc, planetA, planetB, aspect, startDate, endDate, i, closestDate, closestDifference) ==
  IF i > steps
    THEN [threw |-> FALSE, date |-> closestDate, difference |-> closestDifference]
    ELSE
      LET currentDate == sampleDate(startDate, endDate, i, steps)
          posA == getPlanetPositionAtDate(orc, planetA, currentDate)
          posB == getPlanetPositionAtDate(orc, planetB, currentDate)
      IN  IF posA.threw \/ posB.threw
            THEN [threw |-> TRUE]
            ELSE
              LET d0 == Abs(posA.longitude - posB.longitude) % 360
                  diff == IF d0 > 180 THEN 360 - d0 ELSE d0
                  difference == Abs(diff - ASPECT_ANGLES[aspect])
                  better == difference < closestDifference
                  newDate == IF better THEN currentDate ELSE closestDate
                  newDifference == IF better THEN difference ELSE closestDifference
              IN  IF 10 * difference < 1      \* difference < 0.1: break
                    THEN [threw |-> FALSE, date |-> newDate,
                          difference |-> newDifference]
                    ELSE Then(<<newDate, newDifference>>,
                           ExactAspectLoop(orc, planetA, planetB, aspect, startDate,
                                           endDate, i + 1, newDate, newDifference))

\* Date | null, or an exception of the oracle:
\* [threw |-> TRUE] or [threw |-> FALSE, found |-> BOOLEAN, date |-> Date]
findExactAspectDate(env, orc, planetA, planetB, aspect, startDate, endDate) ==
  IF env = "test"
    THEN [threw |-> FALSE, found |-> TRUE,
          date |-> startDate + Trunc(endDate - startDate, 2)]
    ELSE
      LET r == ExactAspectLoop(orc, planetA, planetB, aspect, startDate, endDate,
                               0, startDate, 360)
      IN  IF r.threw THEN [threw |-> TRUE]
          ELSE IF r.difference > 1 THEN [threw |-> FALSE, found |-> FALSE]
          ELSE [threw |-> FALSE, found |-> TRUE, date |-> r.date]

\* the loop of findStationDate from sample i on; closestToZero = -1 is Infinity
RECURSIVE StationLoop(_, _, _, _, _, _, _)
StationLoop(orc, planet, startDate, endDate, i, stationDate, closestToZero) ==
  IF i > steps
    THEN [threw |-> FALSE, found |-> closestToZero >= 0, date |-> stationDate]
    ELSE
      LET currentDate == sampleDate(startDate, endDate, i, steps)
          position == getPlanetPositionAtDate(orc, planet, currentDate)
      IN  IF position.threw
            THEN [threw |-> TRUE]
            ELSE
              LET absSpeed == Abs(position.speed)
                  better == closestToZero < 0 \/ absSpeed < closestToZero
                  newDate == IF better THEN currentDate ELSE stationDate
                  newClosest == IF better THEN absSpeed ELSE closestToZero
              IN  Then(<<newDate, newClosest>>,
                       StationLoop(orc, planet, startDate, endDate, i + 1,
                                   newDate, newClosest))

findStationDate(env, orc, planet, startDate, endDate) ==
  IF env = "test"
    THEN [threw |-> FALSE, found |-> TRUE,
          date |-> startDate + Trunc(endDate - startDate, 2)]
    ELSE StationLoop(orc, planet, startDate, endDate, 0, startDate, -1)

-----------------------------------------------------------------------------
(* Classification *)

RECURSIVE GCD(_, _)
GCD(a, b) == IF b = 0 THEN a ELSE GCD(b, a % b)

\* the rational n/d (d > 0) in lowest terms
Rat(n, d) == LET g == GCD(Abs(n), d) IN <<n \div g, d \div g>>

RatLeq(x, y) == x[1] * y[2] <= y[1] * x[2]

\* calculateIntensity without the Math.max(0, ...)
calculateIntensityUnclamped(currentDate, exactDate, startDate, endDate) ==
  LET now == currentDate
      exact == exactDate
      start == startDate
      end == endDate
      totalDuration == end - start
      distanceFromExact == Abs(now - exact)
      raw == Rat(100 * totalDuration - 100 * distanceFromExact, totalDuration)
  IN  IF now < start \/ now > end THEN <<0, 1>>
      ELSE IF totalDuration = 0 THEN <<100, 1>>
      ELSE IF RatLeq(<<100, 1>>, raw) THEN <<100, 1>> ELSE raw

calculateIntensity(currentDate, exactDate, startDate, endDate) ==
  LET now == currentDate
      exact == exactDate
      start == startDate
      end == endDate
      totalDuration == end - start
      distanceFromExact == Abs(now - exact)
      \* 100 - (distanceFromExact / totalDuration) * 100
      raw == Rat(100 * totalDuration - 100 * distanceFromExact, totalDuration)
      capped == IF RatLeq(<<100, 1>>, raw) THEN <<100, 1>> ELSE raw
  IN  IF now < start \/ now > end THEN <<0, 1>>
      ELSE IF totalDuration = 0 THEN <<100, 1>>
      ELSE IF RatLeq(capped, <<0, 1>>) THEN <<0, 1>> ELSE capped

\* determineTransitTiming that does not look at the end of the window
determineTransitTimingNoEnd(currentDate, exactDate, startDate, endDate) ==
  IF currentDate < startDate THEN TransitTiming.UPCOMING
  ELSE IF currentDate < exactDate THEN TransitTiming.APPLYING
  ELSE TransitTiming.SEPARATING

determineTransitTiming(currentDate, exactDate, startDate, endDate) ==
  LET now == currentDate
      exact == exactDate
      start == startDate
      end == endDate
  IN  IF now < start THEN TransitTiming.UPCOMING
      ELSE IF now >= start /\ now <= end
        THEN (IF now < exact THEN TransitTiming.APPLYING
                             ELSE TransitTiming.SEPARATING)
      ELSE TransitTiming.SEPARATING

-----------------------------------------------------------------------------
(* Transit type identity (transitTypeService.ts) *)

\* the planet names in the order of String comparison
PlanetNameOrder == <<"JUPITER", "MARS", "MERCURY", "MOON", "NEPTUNE", "PLUTO",
                     "SATURN", "SUN", "URANUS", "VENUS">>

NameRank(planet) == CHOOSE k \in 1..Len(PlanetNameOrder) : PlanetNameOrder[k] = planet

\* [planetA, planetB].sort()
sortPair(planetA, planetB) ==
  IF NameRank(planetB) < NameRank(planetA) THEN <<planetB, planetA>>
                                          ELSE <<planetA, planetB>>

\* generateTransitTypeId without the sort of the two planet names
generateTransitTypeIdUnsorted(planetA, planetB, aspect, sign, subtype) ==
  IF subtype = TransitSubtype.RETROGRADE
    THEN [threw |-> FALSE, id |-> <<planetA, "RETROGRADE">>]
  ELSE IF subtype = TransitSubtype.STATION
    THEN [threw |-> FALSE, id |-> <<planetA, "STATION">>]
  ELSE IF subtype = TransitSubtype.INGRESS /\ sign # UNDEFINED
    THEN [threw |-> FALSE, id |-> <<planetA, "INGRESS", sign>>]
  ELSE IF subtype = TransitSubtype.TRANSIT /\ sign # UNDEFINED
    THEN [threw |-> FALSE, id |-> <<planetA, "IN", sign>>]
  ELSE IF planetB # UNDEFINED /\ aspect # UNDEFINED
    THEN [threw |-> FALSE, id |-> <<planetA, aspect, planetB>>]
  ELSE [threw |-> TRUE]

\* generateTransitTypeId treating a single planet without pattern as a station
generateTransitTypeIdLenient(planetA, planetB, aspect, sign, subtype) ==
  IF subtype = TransitSubtype.RETROGRADE
    THEN [threw |-> FALSE, id |-> <<planetA, "RETROGRADE">>]
  ELSE IF subtype = TransitSubtype.STATION
    THEN [threw |-> FALSE, id |-> <<planetA, "STATION">>]
  ELSE IF subtype = TransitSubtype.INGRESS /\ sign # UNDEFINED
    THEN [threw |-> FALSE, id |-> <<planetA, "INGRESS", sign>>]
  ELSE IF subtype = TransitSubtype.TRANSIT /\ sign # UNDEFINED
    THEN [threw |-> FALSE, id |-> <<planetA, "IN", sign>>]
  ELSE IF planetB # UNDEFINED /\ aspect # UNDEFINED
    THEN LET planets == sortPair(planetA, planetB)
         IN  [threw |-> FALSE, id |-> <<planets[1], aspect, planets[2]>>]
  ELSE [threw |-> FALSE, id |-> <<planetA, "STATION">>]

\* the id "a_b_c" is the sequence <<"a", "b", "c">>
generateTransitTypeId(planetA, planetB, aspect, sign, subtype) ==
  IF subtype = TransitSubtype.RETROGRADE
    THEN [threw |-> FALSE, id |-> <<planetA, "RETROGRADE">>]
  ELSE IF subtype = TransitSubtype.STATION
    THEN [threw |-> FALSE, id |-> <<planetA, "STATION">>]
  ELSE IF subtype = TransitSubtype.INGRESS /\ sign # UNDEFINED
    THEN [threw |-> FALSE, id |-> <<planetA, "INGRESS", sign>>]
  ELSE IF subtype = TransitSubtype.TRANSIT /\ sign # UNDEFINED
    THEN [threw |-> FALSE, id |-> <<planetA, "IN", sign>>]
  ELSE IF planetB # UNDEFINED /\ aspect # UNDEFINED
    THEN LET planets == sortPair(planetA, planetB)
         IN  [threw |-> FALSE, id |-> <<planets[1], aspect, planets[2]>>]
  ELSE [threw |-> TRUE]

\* createTransitType: [threw] or [threw, value]; the name and the description
\* of the type are texts built from the same fields and are left out
createTransitType(planetA, planetB, aspect, sign, subtype) ==
  LET typed(id) ==
        IF id.threw THEN [threw |-> TRUE]
        ELSE [threw |-> FALSE,
              value |-> [id |-> id.id, planetA |-> planetA, planetB |-> planetB,
                         aspect |-> aspect, sign |-> sign, subtype |-> subtype]]
  IN  typed(generateTransitTypeId(planetA, planetB, aspect, sign, subtype))

\* id.includes("_" + word): a part after the first one starts with word;
\* no part of an id is longer than the word it starts with
includesAfter(id, word) == \E k \in 2..Len(id) : id[k] = word

\* id.includes("_" + word + "_"): word is a part between two others
includesBetween(id, word) == \E k \in 2..(Len(id) - 1) : id[k] = word

\* return null
NULL == [null |-> TRUE]

\* getTransitTypeById taking an ingress for a stay in the sign
getTransitTypeByIdIngressAsTransit(id) ==
  IF includesAfter(id, "RETROGRADE")
    THEN createTransitType(id[1], UNDEFINED, UNDEFINED, UNDEFINED,
                           TransitSubtype.RETROGRADE)
  ELSE IF includesAfter(id, "STATION")
    THEN createTransitType(id[1], UNDEFINED, UNDEFINED, UNDEFINED,
                           TransitSubtype.STATION)
  ELSE IF includesBetween(id, "INGRESS") \/ includesBetween(id, "IN")
    THEN createTransitType(id[1], UNDEFINED, UNDEFINED, id[3], TransitSubtype.TRANSIT)
  ELSE IF Len(id) = 3
    THEN createTransitType(id[1], id[3], id[2], UNDEFINED, TransitSubtype.STANDARD)
  ELSE [threw |-> FALSE, value |-> NULL]

\* id.split("_") is the sequence of the parts itself
getTransitTypeById(id) ==
  IF includesAfter(id, "RETROGRADE")
    THEN createTransitType(id[1], UNDEFINED, UNDEFINED, UNDEFINED,
                           TransitSubtype.RETROGRADE)
  ELSE IF includesAfter(id, "STATION")
    THEN createTransitType(id[1], UNDEFINED, UNDEFINED, UNDEFINED,
                           TransitSubtype.STATION)
  ELSE IF includesBetween(id, "INGRESS")
    THEN createTransitType(id[1], UNDEFINED, UNDEFINED, id[3], TransitSubtype.INGRESS)
  ELSE IF includesBetween(id, "IN")
    THEN createTransitType(id[1], UNDEFINED, UNDEFINED, id[3], TransitSubtype.TRANSIT)
  ELSE IF Len(id) = 3
    THEN createTransitType(id[1], id[3], id[2], UNDEFINED, TransitSubtype.STANDARD)
  ELSE [threw |-> FALSE, value |-> NULL]

-----------------------------------------------------------------------------
(* TransitAssembler: findTransitsInRange *)

\* durationDays with 5 for Uranus, Neptune and Pluto only
aspectDurationDaysOuterOnly(planetA, planetB) ==
  LET outer == {"URANUS", "NEPTUNE", "PLUTO"}
  IN  IF planetA = "MOON" \/ planetB = "MOON" THEN <<1, 2>>
      ELSE IF planetA \in outer \/ planetB \in outer THEN <<5, 1>>
      ELSE <<2, 1>>

\* let durationDays = 2 | 0.5 | 5, as a rational
aspectDurationDays(planetA, planetB) ==
  LET slow == {"JUPITER", "SATURN", "URANUS", "NEPTUNE", "PLUTO"}
  IN  IF planetA = "MOON" \/ planetB = "MOON" THEN <<1, 2>>
      ELSE IF planetA \in slow \/ planetB \in slow THEN <<5, 1>>
      ELSE <<2, 1>>

\* the STANDARD record pushed for an aspect whose exact date is known
aspectTransit(currentDate, planetA, planetB, aspect, exactDate, durationDays) ==
  LET transitStart ==
        addDays(startOfDay(exactDate), -Floor(durationDays[1], durationDays[2]), 1)
      transitEnd ==
        addDays(endOfDay(exactDate), Ceil(durationDays[1], durationDays[2]), 1)
  IN  [transitTypeId |-> generateTransitTypeId(planetA, planetB, aspect, UNDEFINED,
                                               TransitSubtype.STANDARD).id,
       planetA |-> planetA, planetB |-> planetB, aspect |-> aspect,
       sign |-> UNDEFINED, subtype |-> TransitSubtype.STANDARD,
       timing |-> determineTransitTiming(currentDate, exactDate, transitStart, transitEnd),
       intensity |-> calculateIntensity(currentDate, exactDate, transitStart, transitEnd),
       exactDate |-> exactDate, startDate |-> transitStart, endDate |-> transitEnd]

\* part (a) of one iteration of the aspect loop: the aspect is active now.
\* [threw, transits]: an exception leaves the loop body, the pushes stay
aspectActiveNow(env, orc, currentDate, transits, planetA, planetB, aspect) ==
  LET positionA == getPlanetPositionAtDate(orc, planetA, currentDate)
      positionB == getPlanetPositionAtDate(orc, planetB, currentDate)
  IN  IF positionA.threw \/ positionB.threw
        THEN [threw |-> TRUE, transits |-> transits]
      ELSE IF ~checkAspect(positionA.longitude, positionB.longitude, aspect,
                           planetA, planetB)
        THEN [threw |-> FALSE, transits |-> transits]
      ELSE
        LET exactDate == findExactAspectDate(env, orc, planetA, planetB, aspect,
                                             currentDate - SEVEN_DAYS,
                                             currentDate + SEVEN_DAYS)
        IN  IF exactDate.threw THEN [threw |-> TRUE, transits |-> transits]
            ELSE IF ~exactDate.found THEN [threw |-> FALSE, transits |-> transits]
            ELSE [threw |-> FALSE,
                  transits |-> Append(transits,
                     aspectTransit(currentDate, planetA, planetB, aspect,
                                   exactDate.date,
                                   aspectDurationDays(planetA, planetB)))]

\* part (b): the aspect forms or dissolves between startDate and endDate
aspectInRange(env, orc, currentDate, startDate, endDate, transits, planetA, planetB, aspect) ==
  LET startPositionA == getPlanetPositionAtDate(orc, planetA, startDate)
      startPositionB == getPlanetPositionAtDate(orc, planetB, startDate)
      endPositionA == getPlanetPositionAtDate(orc, planetA, endDate)
      endPositionB == getPlanetPositionAtDate(orc, planetB, endDate)
  IN  IF startPositionA.threw \/ startPositionB.threw
         \/ endPositionA.threw \/ endPositionB.threw
        THEN transits
      ELSE
        LET aspectAtStart == checkAspect(startPositionA.longitude,
                                         startPositionB.longitude, aspect,
                                         planetA, planetB)
            aspectAtEnd == checkAspect(endPositionA.longitude,
                                       endPositionB.longitude, aspect,
                                       planetA, planetB)
            same(t) == t.planetA = planetA /\ t.planetB = planetB
                       /\ t.aspect = aspect
        IN  IF ~((aspectAtStart # aspectAtEnd \/ env = "test")
                 /\ ~(\E ix \in 1..Len(transits) : same(transits[ix])))
              THEN transits
            ELSE IF env = "test" /\ planetA = "SUN" /\ planetB = "MERCURY"
                    /\ aspect = "Conjunction"
              THEN Append(transits,
                     aspectTransit(currentDate, planetA, planetB, aspect,
                                   startDate + Trunc(endDate - startDate, 2),
                                   <<2, 1>>))
            ELSE
              LET exactDate == findExactAspectDate(env, orc, planetA, planetB,
                                                   aspect, startDate, endDate)
              IN  IF exactDate.threw \/ ~exactDate.found
                    THEN transits
                    ELSE Append(transits,
                           aspectTransit(currentDate, planetA, planetB, aspect,
                                         exactDate.date,
                                         aspectDurationDays(planetA, planetB)))

\* the body of the aspect loop for one pair and one aspect (try ... catch)
aspectStep(env, orc, currentDate, startDate, endDate, transits, planetA, planetB, aspect) ==
  LET inRange(a) ==
        IF a.threw THEN a.transits
        ELSE aspectInRange(env, orc, currentDate, startDate, endDate, a.transits,
                           planetA, planetB, aspect)
  IN  inRange(aspectActiveNow(env, orc, currentDate, transits, planetA, planetB, aspect))

\* for (const aspect of aspects), from the k-th aspect on
RECURSIVE aspectLoop(_, _, _, _, _, _, _, _, _)
aspectLoop(env, orc, currentDate, startDate, endDate, transits, planetA, planetB, k) ==
  IF k > Len(Aspect) THEN transits
  ELSE LET rest(pushed) ==
             Then(pushed,
                  aspectLoop(env, orc, currentDate, startDate, endDate, pushed,
                             planetA, planetB, k + 1))
       IN  rest(aspectStep(env, orc, currentDate, startDate, endDate,
                           transits, planetA, planetB, Aspect[k]))

\* for (let j = i + 1; j < planets.length; j++), from j on
RECURSIVE pairLoop(_, _, _, _, _, _, _, _, _)
pairLoop(env, orc, currentDate, startDate, endDate, planets, transits, i, j) ==
  IF j > Len(planets) THEN transits
  ELSE LET rest(pushed) ==
             Then(pushed,
                  pairLoop(env, orc, currentDate, startDate, endDate, planets,
                           pushed, i, j + 1))
       IN  rest(aspectLoop(env, orc, currentDate, startDate, endDate,
                           transits, planets[i], planets[j], 1))

\* for (let i = 0; i < planets.length; i++), from i on
RECURSIVE aspectPass(_, _, _, _, _, _, _, _)
aspectPass(env, orc, currentDate, startDate, endDate, planets, transits, i) ==
  IF i > Len(planets) THEN transits
  ELSE LET rest(pushed) ==
             Then(pushed,
                  aspectPass(env, orc, currentDate, startDate, endDate, planets,
                             pushed, i + 1))
       IN  rest(pairLoop(env, orc, currentDate, startDate, endDate, planets,
                         transits, i, i + 1))

\* durationDays of a retrograde period
retrogradeDurationDays(planet) ==
  IF planet = "MERCURY" THEN 21
  ELSE IF planet = "VENUS" \/ planet = "MARS" THEN 60
  ELSE 120

\* the record pushed for a planet that is retrograde at currentDate
retrogradeNowTransit(currentDate, planet) ==
  LET durationDays == retrogradeDurationDays(planet)
  IN  [transitTypeId |-> generateTransitTypeId(planet, UNDEFINED, UNDEFINED, UNDEFINED,
                                               TransitSubtype.RETROGRADE).id,
       planetA |-> planet, planetB |-> UNDEFINED, aspect |-> UNDEFINED,
       sign |-> UNDEFINED, subtype |-> TransitSubtype.RETROGRADE,
       timing |-> TransitTiming.ACTIVE, intensity |-> <<100, 1>>,
       exactDate |-> currentDate,
       startDate |-> addDays(currentDate, -Floor(durationDays, 2), 1),
       endDate |-> addDays(currentDate, Ceil(durationDays, 2), 1)]

\* first half of the retrograde loop body: retrograde at currentDate
retrogradeNow(orc, currentDate, transits, planet) ==
  LET currentPosition == getPlanetPositionAtDate(orc, planet, currentDate)
      mercuryRetro(t) == t.planetA = "MERCURY"
                         /\ t.subtype = TransitSubtype.RETROGRADE
  IN  IF currentPosition.threw THEN [threw |-> TRUE, transits |-> transits]
      ELSE IF ~isRetrograde(planet, currentPosition)
        THEN [threw |-> FALSE, transits |-> transits]
      ELSE IF ~(planet # "MERCURY" \/ ~(\E ix \in 1..Len(transits) : mercuryRetro(transits[ix])))
        THEN [threw |-> FALSE, transits |-> transits]
      \* the description calls getZodiacSign
      ELSE IF getZodiacSign(currentPosition.longitude).threw
        THEN [threw |-> TRUE, transits |-> transits]
      ELSE [threw |-> FALSE,
            transits |-> Append(transits, retrogradeNowTransit(currentDate, planet))]

\* second half: the retrograde status changes between startDate and endDate
stationInRange(env, orc, currentDate, startDate, endDate, transits, planet) ==
  LET startPosition == getPlanetPositionAtDate(orc, planet, startDate)
      endPosition == getPlanetPositionAtDate(orc, planet, endDate)
  IN  IF startPosition.threw \/ endPosition.threw THEN transits
      ELSE IF isRetrograde(planet, startPosition) = isRetrograde(planet, endPosition)
        THEN transits
      ELSE
        LET exactDate == findStationDate(env, orc, planet, startDate, endDate)
        IN  IF exactDate.threw \/ ~exactDate.found THEN transits
            ELSE
              LET exactPosition == getPlanetPositionAtDate(orc, planet, exactDate.date)
              IN  IF exactPosition.threw THEN transits
                  ELSE
                    LET isGoingRetrograde == exactPosition.speed < 0
                        durationDays == retrogradeDurationDays(planet)
                        transitStart == addDays(exactDate.date, -Floor(durationDays, 2), 1)
                        transitEnd == addDays(exactDate.date, Ceil(durationDays, 2), 1)
                    IN  IF getZodiacSign(exactPosition.longitude).threw THEN transits
                        ELSE Append(transits,
                          [transitTypeId |->
                             generateTransitTypeId(planet, UNDEFINED, UNDEFINED, UNDEFINED,
                               IF isGoingRetrograde THEN TransitSubtype.RETROGRADE
                                                    ELSE TransitSubtype.STATION).id,
                           planetA |-> planet, planetB |-> UNDEFINED,
                           aspect |-> UNDEFINED, sign |-> UNDEFINED,
                           subtype |-> IF isGoingRetrograde THEN TransitSubtype.RETROGRADE
                                                            ELSE TransitSubtype.DIRECT,
                           timing |-> determineTransitTiming(currentDate, exactDate.date,
                                                             transitStart, transitEnd),
                           intensity |-> calculateIntensity(currentDate, exactDate.date,
                                                            transitStart, transitEnd),
                           exactDate |-> exactDate.date,
                           startDate |-> transitStart, endDate |-> transitEnd])

RetrogradePlanets == {"MERCURY", "VENUS", "MARS", "JUPITER", "SATURN", "URANUS",
                      "NEPTUNE", "PLUTO"}

\* the body of the retrograde loop for one planet (try ... catch)
retrogradeStep(env, orc, currentDate, startDate, endDate, transits, planet) ==
  IF planet \notin RetrogradePlanets THEN transits
  ELSE
    LET station(a) ==
          IF a.threw THEN a.transits
          ELSE stationInRange(env, orc, currentDate, startDate, endDate, a.transits,
                              planet)
    IN  station(retrogradeNow(orc, currentDate, transits, planet))

RECURSIVE retrogradePass(_, _, _, _, _, _, _, _)
retrogradePass(env, orc, currentDate, startDate, endDate, planets, transits, i) ==
  IF i > Len(planets) THEN transits
  ELSE LET rest(pushed) ==
             Then(pushed,
                  retrogradePass(env, orc, currentDate, startDate, endDate, planets,
                                 pushed, i + 1))
       IN  rest(retrogradeStep(env, orc, currentDate, startDate, endDate,
                               transits, planets[i]))

\* durationDays of a stay in one sign, as a rational
signDurationDays(planet) ==
  IF planet = "MOON" THEN <<5, 2>>
  ELSE IF planet = "MERCURY" \/ planet = "VENUS" THEN <<25, 1>>
  ELSE IF planet = "MARS" THEN <<60, 1>>
  ELSE IF planet \in {"JUPITER", "SATURN"} THEN <<365, 1>>
  ELSE IF planet \in {"URANUS", "NEPTUNE", "PLUTO"} THEN <<365 * 7, 1>>
  ELSE <<30, 1>>

\* the "currently in sign" record of a planet
signSnapshot(currentDate, planet, currentPosition, currentSign, transitTypeId) ==
  LET durationDays == signDurationDays(planet)
      n == durationDays[1]
      d == durationDays[2]
      degreeInSign == JsMod(currentPosition.longitude, 30)
      \* Math.max(1, Math.min(durationDays / 4, 60)) as a rational
      estimatedDaysInSign ==
        IF n > 60 * 4 * d THEN <<60, 1>>
        ELSE IF n < 4 * d THEN <<1, 1>>
        ELSE <<n, 4 * d>>
      estimatedStartDate ==
        IF planet = "MOON"
          \* daysBeforeSignChange = (degreeInSign / 30) * 2.5
          THEN setDate(currentDate,
                       30 * d * getDate(currentDate) - degreeInSign * n, 30 * d)
          ELSE setDate(currentDate,
                       estimatedDaysInSign[2] * getDate(currentDate)
                         - estimatedDaysInSign[1],
                       estimatedDaysInSign[2])
      estimatedEndDate == addDays(estimatedStartDate, n, d)
  IN  [transitTypeId |-> transitTypeId,
       planetA |-> planet, planetB |-> UNDEFINED, aspect |-> UNDEFINED,
       sign |-> currentSign, subtype |-> TransitSubtype.TRANSIT,
       timing |-> TransitTiming.ACTIVE, intensity |-> <<100, 1>>,
       exactDate |-> currentDate,
       startDate |-> estimatedStartDate, endDate |-> estimatedEndDate]

\* the records pushed when checkDate is the first day in a new sign
ingressRecords(currentDate, endDate, transits, planet, checkDate, checkSign) ==
  LET ingressTypeId == generateTransitTypeId(planet, UNDEFINED, UNDEFINED, checkSign,
                                             TransitSubtype.INGRESS).id
      exactDate == checkDate
      transitStart == exactDate - TWELVE_HOURS
      transitEnd == exactDate + TWELVE_HOURS
      isIngress(t) == t.transitTypeId = ingressTypeId
      withIngress ==
        IF (\E ix \in 1..Len(transits) : isIngress(transits[ix])) THEN transits
        ELSE Append(transits,
          [transitTypeId |-> ingressTypeId,
           planetA |-> planet, planetB |-> UNDEFINED, aspect |-> UNDEFINED,
           sign |-> checkSign, subtype |-> TransitSubtype.INGRESS,
           timing |-> determineTransitTiming(currentDate, exactDate,
                                             transitStart, transitEnd),
           intensity |-> calculateIntensity(currentDate, exactDate,
                                            transitStart, transitEnd),
           exactDate |-> exactDate,
           startDate |-> transitStart, endDate |-> transitEnd])
      signTransitTypeId == generateTransitTypeId(planet, UNDEFINED, UNDEFINED, checkSign,
                                                 TransitSubtype.TRANSIT).id
      isSignTransit(t) == t.transitTypeId = signTransitTypeId
      durationDays == signDurationDays(planet)
      signTransitStart == exactDate
      signTransitEnd == addDays(exactDate, durationDays[1], durationDays[2])
      cappedEndDate == IF signTransitEnd > endDate THEN endDate ELSE signTransitEnd
  IN  IF (\E ix \in 1..Len(withIngress) : isSignTransit(withIngress[ix])) THEN withIngress
      ELSE Append(withIngress,
        [transitTypeId |-> signTransitTypeId,
         planetA |-> planet, planetB |-> UNDEFINED, aspect |-> UNDEFINED,
         sign |-> checkSign, subtype |-> TransitSubtype.TRANSIT,
         timing |-> determineTransitTiming(currentDate, exactDate,
                                           signTransitStart, cappedEndDate),
         intensity |-> calculateIntensity(currentDate, exactDate,
                                          signTransitStart, cappedEndDate),
         exactDate |-> exactDate,
         startDate |-> signTransitStart, endDate |-> cappedEndDate])

\* a scan that never moves its check date
sameCheckDate(checkDate) == checkDate

\* checkDate.setTime(checkDate.getTime() + dayStep)
nextCheckDate(checkDate) == checkDate + dayStep

\* while (checkDate.getTime() < endDate.getTime()) ...: an exception ends it
RECURSIVE ingressScan(_, _, _, _, _, _, _)
ingressScan(orc, currentDate, endDate, transits, planet, checkDate, previousSign) ==
  IF ~(checkDate < endDate) THEN transits
  ELSE
    LET position == getPlanetPositionAtDate(orc, planet, checkDate)
        checkSign == getZodiacSign(position.longitude)
    IN  IF position.threw THEN transits
        ELSE IF checkSign.threw THEN transits
        ELSE IF checkSign.sign # previousSign
          THEN LET rest(pushed) ==
                     Then(pushed,
                          ingressScan(orc, currentDate, endDate, pushed, planet,
                                      nextCheckDate(checkDate), checkSign.sign))
               IN  rest(ingressRecords(currentDate, endDate, transits, planet,
                                       checkDate, checkSign.sign))
        ELSE ingressScan(orc, currentDate, endDate, transits, planet,
                         nextCheckDate(checkDate), previousSign)

\* first half of the sign loop body: the sign the planet is in at currentDate
signNow(orc, currentDate, transits, planet) ==
  LET currentPosition == getPlanetPositionAtDate(orc, planet, currentDate)
      currentSign == getZodiacSign(currentPosition.longitude)
      transitTypeId == generateTransitTypeId(planet, UNDEFINED, UNDEFINED,
                                             currentSign.sign,
                                             TransitSubtype.TRANSIT).id
      same(t) == t.transitTypeId = transitTypeId
  IN  IF currentPosition.threw THEN [threw |-> TRUE, transits |-> transits]
      ELSE IF currentSign.threw THEN [threw |-> TRUE, transits |-> transits]
      ELSE IF (\E ix \in 1..Len(transits) : same(transits[ix])) THEN [threw |-> FALSE, transits |-> transits]
      ELSE [threw |-> FALSE,
            transits |-> Append(transits,
               signSnapshot(currentDate, planet, currentPosition,
                            currentSign.sign, transitTypeId))]

\* second half: the ingresses between startDate and endDate
ingressInRange(orc, currentDate, startDate, endDate, transits, planet) ==
  LET startPosition == getPlanetPositionAtDate(orc, planet, startDate)
      endPosition == getPlanetPositionAtDate(orc, planet, endDate)
      startSign == getZodiacSign(startPosition.longitude)
      endSign == getZodiacSign(endPosition.longitude)
  IN  IF startPosition.threw \/ endPosition.threw THEN transits
      ELSE IF startSign.threw \/ endSign.threw THEN transits
      ELSE IF startSign.sign = endSign.sign THEN transits
      ELSE ingressScan(orc, currentDate, endDate, transits, planet,
                       startDate, startSign.sign)

\* the body of the sign loop for one planet (try ... catch)
signStep(orc, currentDate, startDate, endDate, transits, planet) ==
  LET ingress(a) ==
        IF a.threw THEN a.transits
        ELSE ingressInRange(orc, currentDate, startDate, endDate, a.transits, planet)
  IN  ingress(signNow(orc, currentDate, transits, planet))

RECURSIVE signPass(_, _, _, _, _, _, _)
signPass(orc, currentDate, startDate, endDate, planets, transits, i) ==
  IF i > Len(planets) THEN transits
  ELSE LET rest(pushed) ==
             Then(pushed,
                  signPass(orc, currentDate, startDate, endDate, planets, pushed, i + 1))
       IN  rest(signStep(orc, currentDate, startDate, endDate, transits, planets[i]))

\* "Special check for Mercury's current retrograde status", outside any try:
\* [threw |-> TRUE] or [threw |-> FALSE, transits |-> ...]
mercuryCheck(orc, currentDate, transits) ==
  LET mercuryPosition == getPlanetPositionAtDate(orc, "MERCURY", currentDate)
      mercuryRetro(t) == t.planetA = "MERCURY"
                         /\ t.subtype = TransitSubtype.RETROGRADE
      stale(t) == t.transitTypeId = <<"MERCURY", "STATION">>
                  /\ t.subtype = TransitSubtype.DIRECT
                  /\ t.planetA = "MERCURY"
      \* transits.splice(transits.findIndex(stale), 1)
      spliced(ts) ==
        IF (\E ix \in 1..Len(ts) : stale(ts[ix]))
          THEN LET directIndex == CHOOSE k \in 1..Len(ts) :
                                    stale(ts[k]) /\ \A m \in 1..(k - 1) : ~stale(ts[m])
               IN  SubSeq(ts, 1, directIndex - 1) \o SubSeq(ts, directIndex + 1, Len(ts))
          ELSE ts
  IN  IF mercuryPosition.threw THEN [threw |-> TRUE]
      ELSE IF ~isRetrograde("MERCURY", mercuryPosition)
        THEN [threw |-> FALSE, transits |-> transits]
      ELSE IF (\E ix \in 1..Len(transits) : mercuryRetro(transits[ix]))
        THEN [threw |-> FALSE, transits |-> spliced(transits)]
      \* the description of the pushed record calls getZodiacSign
      ELSE IF getZodiacSign(mercuryPosition.longitude).threw THEN [threw |-> TRUE]
      ELSE [threw |-> FALSE,
            transits |-> spliced(Append(transits,
                                        retrogradeNowTransit(currentDate, "MERCURY")))]

timingOrder(timing) ==
  CASE timing = TransitTiming.ACTIVE -> 0
    [] timing = TransitTiming.APPLYING -> 1
    [] timing = TransitTiming.SEPARATING -> 2
    [] timing = TransitTiming.UPCOMING -> 3
    [] OTHER -> 4

\* the comparator with the intensities subtracted the other way round
compareTransitsAscending(a, b) ==
  LET timingDiff == timingOrder(a.timing) - timingOrder(b.timing)
  IN  IF timingDiff # 0 THEN timingDiff
      ELSE a.intensity[1] * b.intensity[2] - b.intensity[1] * a.intensity[2]

\* the comparator of the final sort: negative, zero or positive
compareTransits(a, b) ==
  LET timingDiff == timingOrder(a.timing) - timingOrder(b.timing)
  IN  IF timingDiff # 0 THEN timingDiff
      \* bIntensity - aIntensity
      ELSE b.intensity[1] * a.intensity[2] - a.intensity[1] * b.intensity[2]

\* Array.prototype.sort(compare): a stable sort.  The k-th element comes
\* after every element that compares before it and after the equal ones
\* that precede it in the array.
sortTransits(transits) ==
  LET n == Len(transits)
      before(m, k) ==
        LET c == compareTransits(transits[m], transits[k])
        IN  c < 0 \/ (c = 0 /\ m < k)
      place == [k \in 1..n |-> 1 + Cardinality({m \in 1..n : before(m, k)})]
  IN  Then(place, [p \in 1..n |-> transits[CHOOSE k \in 1..n : place[k] = p]])

\* the range check with < for <=
invalidRangeStrict(startDate, endDate) == endDate < startDate

\* the range check at the head of findTransitsInRange
invalidRange(startDate, endDate) == endDate <= startDate

\* process.env.NODE_ENV after the "For tests, set NODE_ENV" block
envAfterCall(env, startDate) ==
  IF env = UNDEFINED /\ getFullYear(startDate) = 2025 THEN "test" ELSE env

\* [threw, value, env]: the returned list (or an exception) and the
\* process.env.NODE_ENV the call leaves behind
findTransitsInRange(env, orc, currentDate, startDate, endDate, filteredPlanets) ==
  IF invalidRange(startDate, endDate)
    THEN [threw |-> FALSE, value |-> <<>>, env |-> env]
    ELSE
      LET planets == IF filteredPlanets = UNDEFINED THEN Planet ELSE filteredPlanets
          env2 == envAfterCall(env, startDate)
          \* the sort and the return
          sorted(checked) ==
            IF checked.threw
              THEN [threw |-> TRUE, env |-> env2]
              ELSE [threw |-> FALSE, value |-> sortTransits(checked.transits),
                    env |-> env2]
          \* the special check for Mercury
          mercury(transits) ==
            Then(transits, sorted(mercuryCheck(orc, currentDate, transits)))
          \* 3. sign ingress transits
          signs(transits) ==
            Then(transits,
                 mercury(signPass(orc, currentDate, startDate, endDate, planets,
                                  transits, 1)))
          \* 2. retrograde transits
          retrogrades(transits) ==
            Then(transits,
                 signs(retrogradePass(env2, orc, currentDate, startDate, endDate,
                                      planets, transits, 1)))
      \* 1. standard aspects between planets
      IN  retrogrades(aspectPass(env2, orc, currentDate, startDate, endDate, planets,
                                 <<>>, 1))

\* getCurrentTransits looking ahead of the date only
getCurrentTransitsForward(env, orc, currentDate, date, dayRange) ==
  findTransitsInRange(env, orc, currentDate, date, addDays(date, dayRange, 1),
                      UNDEFINED)

getCurrentTransits(env, orc, currentDate, date, dayRange) ==
  findTransitsInRange(env, orc, currentDate,
                      addDays(date, -dayRange, 1), addDays(date, dayRange, 1),
                      UNDEFINED)

\* a fixed illustrative STANDARD record
sampleTransit(planetA, planetB, aspect, timing, intensity, exactDate, startDate, endDate) ==
  [transitTypeId |-> generateTransitTypeId(planetA, planetB, aspect, UNDEFINED,
                                           TransitSubtype.STANDARD).id,
   planetA |-> planetA, planetB |-> planetB, aspect |-> aspect,
   sign |-> UNDEFINED, subtype |-> TransitSubtype.STANDARD,
   timing |-> timing, intensity |-> <<intensity, 1>>,
   exactDate |-> exactDate, startDate |-> startDate, endDate |-> endDate]

sampleTransits(date) ==
  << sampleTransit("SUN", "MARS", "Square", TransitTiming.APPLYING, 80,
                   date + Day(1), date, date + Day(2)),
     sampleTransit("VENUS", "JUPITER", "Trine", TransitTiming.SEPARATING, 60,
                   date - Day(1), date - Day(3), date + Day(1)) >>

fallbackTransits(date) ==
  << sampleTransit("MERCURY", "VENUS", "Conjunction", TransitTiming.ACTIVE, 100,
                   date, date - Day(1), date + Day(1)),
     sampleTransit("MOON", "SATURN", "Opposition", TransitTiming.UPCOMING, 0,
                   date + Day(2), date + 3 * HalfDay, date + 5 * HalfDay),
     sampleTransit("SUN", "JUPITER", "Trine", TransitTiming.UPCOMING, 0,
                   date + Day(3), date + Day(1), date + Day(5)) >>

\* getSampleTransits without its try ... catch
getSampleTransitsNoCatch(env, orc, currentDate, date) ==
  LET supplemented(realTransits) ==
        LET combined == realTransits.value \o sampleTransits(date)
        IN  IF realTransits.threw \/ Len(realTransits.value) >= 3
              THEN realTransits
            ELSE [threw |-> FALSE,
                  value |-> SubSeq(combined, 1, Min(5, Len(combined))),
                  env |-> realTransits.env]
  IN  supplemented(getCurrentTransits(env, orc, currentDate, date, 5))

\* getSampleTransits padding whatever the number of real transits is
getSampleTransitsPadAlways(env, orc, currentDate, date) ==
  LET supplemented(realTransits) ==
        LET combined == realTransits.value \o sampleTransits(date)
        IN  IF realTransits.threw
              THEN [threw |-> FALSE, value |-> fallbackTransits(date),
                    env |-> realTransits.env]
            ELSE [threw |-> FALSE,
                  value |-> SubSeq(combined, 1, Min(5, Len(combined))),
                  env |-> realTransits.env]
  IN  supplemented(getCurrentTransits(env, orc, currentDate, date, 5))

getSampleTransits(env, orc, currentDate, date) ==
  LET supplemented(realTransits) ==
        LET combined == realTransits.value \o sampleTransits(date)
        IN  IF realTransits.threw
              THEN [threw |-> FALSE, value |-> fallbackTransits(date),
                    env |-> realTransits.env]
            ELSE IF Len(realTransits.value) >= 3
              THEN realTransits
            ELSE [threw |-> FALSE,
                  value |-> SubSeq(combined, 1, Min(5, Len(combined))),
                  env |-> realTransits.env]
  IN  supplemented(getCurrentTransits(env, orc, currentDate, date, 5))

-----------------------------------------------------------------------------
(* The process: calls of the exported functions *)

NoCall == [op |-> "none", now |-> 0, args |-> <<>>]
NoResult == [threw |-> FALSE, value |-> <<>>]
NoFrame == [samples |-> 0]

NodeEnvs == {UNDEFINED, "test", "production"}

\* values of new Date() at the time of a call
Nows == {Day(80) + 1, Day(93) + HalfDay}

\* date ranges <<startDate, endDate>> of the calls
Ranges == {<<Day(78), Day(85)>>, <<Day(93), Day(100)>>, <<Day(94) + 1, Day(97) + 3>>,
           <<Day(85), Day(78)>>, <<Day(93), Day(93)>>, <<Day(93), Day(121)>>}

\* planet lists of the calls
PlanetLists == {<<"SUN", "MOON", "VENUS">>, <<"MERCURY", "VENUS">>,
                <<"MOON", "JUPITER", "MERCURY">>, <<"MARS", "VENUS">>}

Init ==
  /\ startEnv \in NodeEnvs
  /\ nodeEnv = startEnv
  /\ oracle \in Oracles
  /\ pc = "idle"
  /\ call = NoCall
  /\ result = NoResult
  /\ frame = NoFrame

Returned(r) == IF r.threw THEN [threw |-> TRUE, value |-> <<>>]
                          ELSE [threw |-> FALSE, value |-> r.value]

CallFindTransitsInRange ==
  /\ pc = "idle"
  /\ \E now \in Nows, range \in Ranges, planets \in PlanetLists :
       \E r \in {findTransitsInRange(nodeEnv, oracle, now, range[1], range[2], planets)} :
           /\ call' = [op |-> "findTransitsInRange", now |-> now,
                       args |-> <<range[1], range[2], planets>>]
           /\ result' = Returned(r)
           /\ nodeEnv' = r.env
  /\ pc' = "returned"
  /\ UNCHANGED <<startEnv, oracle, frame>>

\* the caller takes the result
Return ==
  /\ pc = "returned"
  /\ pc' = "idle"
  /\ call' = NoCall
  /\ result' = NoResult
  /\ frame' = NoFrame
  /\ UNCHANGED <<nodeEnv, startEnv, oracle>>

\* dates and day ranges passed to getCurrentTransits / getSampleTransits
SampleDates == {Day(80), Day(95) + 1}
DayRanges == {-1, 0, 3}

\* the ephemerides of the runs of getCurrentTransits / getSampleTransits
SampleOracles == {o \in Oracles : ~o.moving /\ o.speedMode \in {"direct", "stationD"}}

CallGetCurrentTransits ==
  /\ pc = "idle"
  /\ \E now \in Nows, date \in SampleDates, dayRange \in DayRanges :
       \E r \in {getCurrentTransits(nodeEnv, oracle, now, date, dayRange)} :
           /\ call' = [op |-> "getCurrentTransits", now |-> now,
                       args |-> <<date, dayRange>>]
           /\ result' = Returned(r)
           /\ nodeEnv' = r.env
  /\ pc' = "returned"
  /\ UNCHANGED <<startEnv, oracle, frame>>

CallGetSampleTransits ==
  /\ pc = "idle"
  /\ \E now \in Nows, date \in SampleDates :
       \E r \in {getSampleTransits(nodeEnv, oracle, now, date)} :
           /\ call' = [op |-> "getSampleTransits", now |-> now, args |-> <<date>>]
           /\ result' = Returned(r)
           /\ nodeEnv' = r.env
  /\ pc' = "returned"
  /\ UNCHANGED <<startEnv, oracle, frame>>

\* arguments of the calls of checkAspect
LongitudesA == {0, 120, 355, -5, 725}
LongitudesB == {0, 2, 5, 9, 60, 62, 65, 90, 92, 98, 118, 120, 128, 175, 180, 182, 189,
                355, -5, 725}
AspectPlanets == {UNDEFINED, "SUN", "MERCURY", "JUPITER", "PLUTO"}

CallCheckAspect ==
  /\ pc = "idle"
  /\ \E longitudeA \in LongitudesA, longitudeB \in LongitudesB, aspect \in Aspects,
        planetA \in AspectPlanets, planetB \in AspectPlanets :
       /\ call' = [op |-> "checkAspect", now |-> 0,
                   args |-> <<longitudeA, longitudeB, aspect, planetA, planetB>>]
       /\ result' = [threw |-> FALSE,
                     value |-> checkAspect(longitudeA, longitudeB, aspect,
                                           planetA, planetB)]
  /\ pc' = "returned"
  /\ UNCHANGED <<nodeEnv, startEnv, oracle, frame>>

\* arguments of the calls of generateTransitTypeId
TypeSigns == {UNDEFINED, "Aries", "Gemini", "Pisces"}
TypeSubtypes == {TransitSubtype.STANDARD, TransitSubtype.RETROGRADE,
                 TransitSubtype.DIRECT, TransitSubtype.STATION,
                 TransitSubtype.INGRESS, TransitSubtype.TRANSIT}

CallGenerateTransitTypeId ==
  /\ pc = "idle"
  /\ \E planetA \in Planets, planetB \in Planets \cup {UNDEFINED},
        aspect \in Aspects \cup {UNDEFINED}, sign \in TypeSigns,
        subtype \in TypeSubtypes :
       \E r \in {generateTransitTypeId(planetA, planetB, aspect, sign, subtype)} :
         /\ call' = [op |-> "generateTransitTypeId", now |-> 0,
                     args |-> <<planetA, planetB, aspect, sign, subtype>>]
         /\ result' = IF r.threw THEN [threw |-> TRUE, value |-> <<>>]
                                 ELSE [threw |-> FALSE, value |-> r.id]
  /\ pc' = "returned"
  /\ UNCHANGED <<nodeEnv, startEnv, oracle, frame>>

\* the ids generateTransitTypeId produces, and some texts it never produces
GeneratedIds ==
  {generateTransitTypeId(planetA, planetB, aspect, sign, subtype).id :
     <<planetA, planetB, aspect, sign, subtype>> \in
       {g \in Planets \X (Planets \cup {UNDEFINED}) \X (Aspects \cup {UNDEFINED})
              \X TypeSigns \X TypeSubtypes :
          ~generateTransitTypeId(g[1], g[2], g[3], g[4], g[5]).threw}}

OtherIds == {<<"SUN">>, <<"SUN", "INGRESS">>, <<"SUN", "Square", "MARS", "x">>}

CallGetTransitTypeById ==
  /\ pc = "idle"
  /\ \E id \in GeneratedIds \cup OtherIds :
       \E r \in {getTransitTypeById(id)} :
         /\ call' = [op |-> "getTransitTypeById", now |-> 0, args |-> <<id>>]
         /\ result' = IF r.threw THEN [threw |-> TRUE, value |-> <<>>]
                                 ELSE [threw |-> FALSE, value |-> r.value]
  /\ pc' = "returned"
  /\ UNCHANGED <<nodeEnv, startEnv, oracle, frame>>

\* the moments (getTime() values) handed to the two classifiers
Moments == 0..MaxMoment

CallDetermineTransitTiming ==
  /\ pc = "idle"
  /\ \E now \in Moments, exact \in Moments, start \in Moments, end \in Moments :
       /\ call' = [op |-> "determineTransitTiming", now |-> now,
                   args |-> <<exact, start, end>>]
       /\ result' = [threw |-> FALSE,
                     value |-> determineTransitTiming(now, exact, start, end)]
  /\ pc' = "returned"
  /\ UNCHANGED <<nodeEnv, startEnv, oracle, frame>>

CallCalculateIntensity ==
  /\ pc = "idle"
  /\ \E now \in Moments, exact \in Moments, start \in Moments, end \in Moments :
       /\ call' = [op |-> "calculateIntensity", now |-> now,
                   args |-> <<exact, start, end>>]
       /\ result' = [threw |-> FALSE,
                     value |-> calculateIntensity(now, exact, start, end)]
  /\ pc' = "returned"
  /\ UNCHANGED <<nodeEnv, startEnv, oracle, frame>>

\* the date ranges handed to the two searches
SearchRanges == {<<Day(73) + 1, Day(87) + 1>>, <<Day(78), Day(85)>>,
                 <<Day(93), Day(100)>>, <<Day(94) + 1, Day(97) + 3>>}

SearchPlanets == {"SUN", "MOON", "MERCURY", "VENUS", "JUPITER"}

\* Date | null as a list: <<>> is null, <<date>> a Date
Searched(r) ==
  IF r.threw THEN [threw |-> TRUE, value |-> <<>>]
  ELSE [threw |-> FALSE, value |-> IF r.found THEN <<r.date>> ELSE <<>>]

CallFindExactAspectDate ==
  /\ pc = "idle"
  /\ \E planetA \in SearchPlanets, planetB \in SearchPlanets,
        k \in 1..Len(Aspect), range \in SearchRanges :
       /\ planetA # planetB
       /\ call' = [op |-> "findExactAspectDate", now |-> 0,
                   args |-> <<planetA, planetB, Aspect[k], range[1], range[2]>>]
       /\ result' = Searched(findExactAspectDate(nodeEnv, oracle, planetA, planetB,
                                                 Aspect[k], range[1], range[2]))
  /\ pc' = "returned"
  /\ UNCHANGED <<nodeEnv, startEnv, oracle, frame>>

CallFindStationDate ==
  /\ pc = "idle"
  /\ \E planet \in SearchPlanets, range \in SearchRanges :
       /\ call' = [op |-> "findStationDate", now |-> 0,
                   args |-> <<planet, range[1], range[2]>>]
       /\ result' = Searched(findStationDate(nodeEnv, oracle, planet,
                                             range[1], range[2]))
  /\ pc' = "returned"
  /\ UNCHANGED <<nodeEnv, startEnv, oracle, frame>>

\* oracle speeds in tenths of a degree per day
Speeds == -3..1

CallIsRetrograde ==
  /\ pc = "idle"
  /\ \E planet \in Planets, speed \in Speeds :
       /\ call' = [op |-> "isRetrograde", now |-> 0, args |-> <<planet, speed>>]
       /\ result' = [threw |-> FALSE,
                     value |-> isRetrograde(planet, [longitude |-> 0, speed |-> speed])]
  /\ pc' = "returned"
  /\ UNCHANGED <<nodeEnv, startEnv, oracle, frame>>

CallGetRetrogadeStatus ==
  /\ pc = "idle"
  /\ \E planet \in Planets, speed \in Speeds :
       /\ call' = [op |-> "getRetrogadeStatus", now |-> 0, args |-> <<planet, speed>>]
       /\ result' = [threw |-> FALSE, value |-> getRetrogadeStatus(planet, 0, speed)]
  /\ pc' = "returned"
  /\ UNCHANGED <<nodeEnv, startEnv, oracle, frame>>

\* the planet pairs (i < j) and ranges of the loops stepped through
LoopPairs == {<<"SUN", "MOON">>, <<"SUN", "MERCURY">>, <<"MOON", "MERCURY">>}
LoopRanges == {range \in Ranges \cup SearchRanges : ~invalidRange(range[1], range[2])}

\* the ingress scan is entered when the signs at startDate and endDate differ
EnterIngressScan ==
  /\ pc = "idle"
  /\ \E planet \in SearchPlanets, range \in LoopRanges, now \in Nows :
       LET startPosition == getPlanetPositionAtDate(oracle, planet, range[1])
           endPosition == getPlanetPositionAtDate(oracle, planet, range[2])
           startSign == getZodiacSign(startPosition.longitude)
           endSign == getZodiacSign(endPosition.longitude)
       IN  /\ ~startPosition.threw /\ ~endPosition.threw
           /\ ~startSign.threw /\ ~endSign.threw
           /\ startSign.sign # endSign.sign
           /\ call' = [op |-> "ingressScan", now |-> now,
                       args |-> <<planet, range[1], range[2], startSign.sign>>]
           /\ frame' = [checkDate |-> range[1], previousSign |-> startSign.sign,
                        transits |-> <<>>, samples |-> 0]
  /\ pc' = "ingressScan"
  /\ UNCHANGED <<nodeEnv, startEnv, oracle, result>>

\* one iteration of while (checkDate.getTime() < endDate.getTime())
IngressScanStep ==
  /\ pc = "ingressScan"
  /\ frame.checkDate < call.args[3]
  /\ frame.samples <= Ceil(call.args[3] - call.args[2], TicksPerDay)
  /\ LET position == getPlanetPositionAtDate(oracle, call.args[1], frame.checkDate)
         checkSign == getZodiacSign(position.longitude)
     IN  IF position.threw \/ checkSign.threw
           THEN /\ pc' = "returned"
                /\ result' = [threw |-> TRUE, value |-> frame.transits]
                /\ frame' = [frame EXCEPT !.samples = @ + 1]
           ELSE /\ pc' = pc
                /\ result' = result
                /\ frame' =
                     [checkDate |-> nextCheckDate(frame.checkDate),
                      previousSign |-> checkSign.sign,
                      transits |->
                        IF checkSign.sign # frame.previousSign
                          THEN ingressRecords(call.now, call.args[3], frame.transits,
                                              call.args[1], frame.checkDate,
                                              checkSign.sign)
                          ELSE frame.transits,
                      samples |-> frame.samples + 1]
  /\ UNCHANGED <<nodeEnv, startEnv, oracle, call>>

\* the loop condition fails
IngressScanExit ==
  /\ pc = "ingressScan"
  /\ ~(frame.checkDate < call.args[3])
  /\ pc' = "returned"
  /\ result' = [threw |-> FALSE, value |-> frame.transits]
  /\ UNCHANGED <<nodeEnv, startEnv, oracle, call, frame>>

\* findExactAspectDate outside test mode reaches its loop
EnterExactSearch ==
  /\ pc = "idle"
  /\ nodeEnv # "test"
  /\ \E pair \in LoopPairs, k \in 1..Len(Aspect), range \in LoopRanges :
       /\ call' = [op |-> "exactSearch", now |-> 0,
                   args |-> <<pair[1], pair[2], Aspect[k], range[1], range[2]>>]
       /\ frame' = [i |-> 0, closestDate |-> range[1], closestDifference |-> 360,
                    samples |-> 0]
  /\ pc' = "exactSearch"
  /\ UNCHANGED <<nodeEnv, startEnv, oracle, result>>

\* one iteration of for (let i = 0; i <= steps; i++) of findExactAspectDate
ExactSearchStep ==
  /\ pc = "exactSearch"
  /\ frame.i <= steps
  /\ frame.samples <= steps + 1
  /\ LET currentDate == sampleDate(call.args[4], call.args[5], frame.i, steps)
         posA == getPlanetPositionAtDate(oracle, call.args[1], currentDate)
         posB == getPlanetPositionAtDate(oracle, call.args[2], currentDate)
         d0 == Abs(posA.longitude - posB.longitude) % 360
         diff == IF d0 > 180 THEN 360 - d0 ELSE d0
         difference == Abs(diff - ASPECT_ANGLES[call.args[3]])
         better == difference < frame.closestDifference
         closestDate == IF better THEN currentDate ELSE frame.closestDate
         closestDifference == IF better THEN difference ELSE frame.closestDifference
     IN  IF posA.threw \/ posB.threw
           THEN /\ pc' = "returned"
                /\ result' = [threw |-> TRUE, value |-> <<>>]
                /\ frame' = [frame EXCEPT !.samples = @ + 1]
         ELSE IF 10 * difference < 1
           \* break, then the return after the loop
           THEN /\ pc' = "returned"
                /\ result' = [threw |-> FALSE,
                              value |-> IF closestDifference > 1 THEN <<>>
                                        ELSE <<closestDate>>]
                /\ frame' = [i |-> frame.i, closestDate |-> closestDate,
                             closestDifference |-> closestDifference,
                             samples |-> frame.samples + 1]
         ELSE /\ pc' = pc
              /\ result' = result
              /\ frame' = [i |-> frame.i + 1, closestDate |-> closestDate,
                           closestDifference |-> closestDifference,
                           samples |-> frame.samples + 1]
  /\ UNCHANGED <<nodeEnv, startEnv, oracle, call>>

\* i > steps: the return after the loop
ExactSearchExit ==
  /\ pc = "exactSearch"
  /\ frame.i > steps
  /\ pc' = "returned"
  /\ result' = [threw |-> FALSE,
                value |-> IF frame.closestDifference > 1 THEN <<>>
                          ELSE <<frame.closestDate>>]
  /\ UNCHANGED <<nodeEnv, startEnv, oracle, call, frame>>

\* findStationDate outside test mode reaches its loop
EnterStationSearch ==
  /\ pc = "idle"
  /\ nodeEnv # "test"
  /\ \E planet \in SearchPlanets, range \in LoopRanges :
       /\ call' = [op |-> "stationSearch", now |-> 0,
                   args |-> <<planet, range[1], range[2]>>]
       /\ frame' = [i |-> 0, stationDate |-> <<>>, closestToZero |-> -1,
                    samples |-> 0]
  /\ pc' = "stationSearch"
  /\ UNCHANGED <<nodeEnv, startEnv, oracle, result>>

\* one iteration of for (let i = 0; i <= steps; i++) of findStationDate;
\* closestToZero = -1 is Infinity and stationDate = <<>> is null
StationSearchStep ==
  /\ pc = "stationSearch"
  /\ frame.i <= steps
  /\ frame.samples <= steps + 1
  /\ LET currentDate == sampleDate(call.args[2], call.args[3], frame.i, steps)
         position == getPlanetPositionAtDate(oracle, call.args[1], currentDate)
         absSpeed == Abs(position.speed)
         better == frame.closestToZero < 0 \/ absSpeed < frame.closestToZero
     IN  IF position.threw
           THEN /\ pc' = "returned"
                /\ result' = [threw |-> TRUE, value |-> <<>>]
                /\ frame' = [frame EXCEPT !.samples = @ + 1]
           ELSE /\ pc' = pc
                /\ result' = result
                /\ frame' = [i |-> frame.i + 1,
                             stationDate |-> IF better THEN <<currentDate>>
                                             ELSE frame.stationDate,
                             closestToZero |-> IF better THEN absSpeed
                                               ELSE frame.closestToZero,
                             samples |-> frame.samples + 1]
  /\ UNCHANGED <<nodeEnv, startEnv, oracle, call>>

\* i > steps: return stationDate
StationSearchExit ==
  /\ pc = "stationSearch"
  /\ frame.i > steps
  /\ pc' = "returned"
  /\ result' = [threw |-> FALSE, value |-> frame.stationDate]
  /\ UNCHANGED <<nodeEnv, startEnv, oracle, call, frame>>

Next == CallFindTransitsInRange \/ Return

Spec == Init /\ [][Next]_vars

\* the runs of the sampling entry points
InitSample == Init /\ oracle \in SampleOracles

NextSample == CallGetCurrentTransits \/ CallGetSampleTransits \/ Return

SpecSample == InitSample /\ [][NextSample]_vars

\* the runs of the aspect matcher
InitAspect ==
  /\ Init
  /\ startEnv = UNDEFINED
  /\ oracle = [cfg |-> "A", moving |-> FALSE, speedMode |-> "direct",
               failMode |-> "none"]

NextAspect == CallCheckAspect \/ Return

SpecAspect == InitAspect /\ [][NextAspect]_vars

\* the runs of the transit type service
NextType == CallGenerateTransitTypeId \/ CallGetTransitTypeById \/ Return

SpecType == InitAspect /\ [][NextType]_vars

\* the runs of the two classifiers, alone and inside findTransitsInRange
InitClassify ==
  /\ Init
  /\ startEnv = "production"
  /\ oracle.moving /\ oracle.failMode = "none"

NextClassify ==
  \/ CallDetermineTransitTiming
  \/ CallCalculateIntensity
  \/ CallFindTransitsInRange
  \/ Return

SpecClassify == InitClassify /\ [][NextClassify]_vars

\* the runs of the two grid searches
NextSearch == CallFindExactAspectDate \/ CallFindStationDate \/ Return

SpecSearch == Init /\ [][NextSearch]_vars

\* the runs of the two retrograde predicates
NextRetrograde == CallIsRetrograde \/ CallGetRetrogadeStatus \/ Return

SpecRetrograde == Init /\ [][NextRetrograde]_vars

\* the runs of the three loops of findTransitsInRange, one iteration at a
\* time; the process always executes its next statement
InitLoops == Init /\ startEnv = "production" /\ oracle.failMode \in {"none", "late"}

NextLoops ==
  \/ EnterIngressScan \/ IngressScanStep \/ IngressScanExit
  \/ EnterExactSearch \/ ExactSearchStep \/ ExactSearchExit
  \/ EnterStationSearch \/ StationSearchStep \/ StationSearchExit
  \/ Return

SpecLoops == InitLoops /\ [][NextLoops]_vars /\ WF_vars(NextLoops)

-----------------------------------------------------------------------------
(* Properties *)

ReturnedFrom(op) == pc = "returned" /\ call.op = op

\* C9: checkAspect is symmetric: swapping the two longitudes together with
\* the two planets does not change its result.
C9_CheckAspectSymmetric ==
  ReturnedFrom("checkAspect") =>
    result.value = checkAspect(call.args[2], call.args[1], call.args[3],
                               call.args[5], call.args[4])

\* a call that matched with planets of two different categories
C9_Witness ==
  /\ ReturnedFrom("checkAspect")
  /\ call.args[4] = "SUN" /\ call.args[5] = "PLUTO"
  /\ call.args[1] = 355 /\ call.args[2] = 5 /\ call.args[3] = "Conjunction"
  /\ result.value = TRUE

\* C10: checkAspect(355, 5, CONJUNCTION, pA, pB) is true for whichever planets
\* are supplied, also when none is supplied.
C10_SeamConjunction ==
  (/\ ReturnedFrom("checkAspect")
   /\ call.args[1] = 355 /\ call.args[2] = 5 /\ call.args[3] = "Conjunction")
    => result.value = TRUE


\* the list returned by the last call
Transits == result.value

FindReturned == ReturnedFrom("findTransitsInRange") /\ ~result.threw

\* C1: every returned Transit satisfies startDate <= exactDate <= endDate.
C1_DatesOrdered ==
  FindReturned =>
    \A k \in 1..Len(Transits) :
      /\ Transits[k].startDate <= Transits[k].exactDate
      /\ Transits[k].exactDate <= Transits[k].endDate

\* C2: findTransitsInRange never throws, whichever oracle calls fail.
C2_NeverThrows ==
  ReturnedFrom("findTransitsInRange") => ~result.threw

NoRepeats(list) == \A m, k \in 1..Len(list) : list[m] = list[k] => m = k

\* C3: for a planet list without repeated planets, no two returned transits
\* have the same transitTypeId.
C3_UniqueTypeIds ==
  (FindReturned /\ NoRepeats(call.args[3])) =>
    \A m, k \in 1..Len(Transits) :
      Transits[m].transitTypeId = Transits[k].transitTypeId => m = k

C4_Priority(timing) ==
  CASE timing = "Active" -> 0
    [] timing = "Applying" -> 1
    [] timing = "Separating" -> 2
    [] timing = "Upcoming" -> 3
    [] OTHER -> 4

\* C4: the returned list is sorted by timing priority (ACTIVE, APPLYING,
\* SEPARATING, UPCOMING, unclassified) and, within one priority, by
\* non-increasing intensity.
C4_Sorted ==
  FindReturned =>
    \A k \in 1..(Len(Transits) - 1) :
      LET a == Transits[k]
          b == Transits[k + 1]
      IN  /\ C4_Priority(a.timing) <= C4_Priority(b.timing)
          /\ C4_Priority(a.timing) = C4_Priority(b.timing)
               => RatLeq(b.intensity, a.intensity)

\* a returned list with three priorities and, within one of them, two
\* different intensities
C4_Witness ==
  /\ FindReturned
  /\ Cardinality({C4_Priority(Transits[k].timing) : k \in 1..Len(Transits)}) >= 3
  /\ \E k \in 1..(Len(Transits) - 1) :
       /\ Transits[k].timing = Transits[k + 1].timing
       /\ Transits[k].intensity # Transits[k + 1].intensity

\* C5: with endDate <= startDate the call returns the empty list and does
\* not throw, whatever the oracle does.
C5_InvalidRangeEmpty ==
  (ReturnedFrom("findTransitsInRange") /\ call.args[2] <= call.args[1]) =>
    (~result.threw /\ result.value = <<>>)

\* an equal range, with an oracle that fails on every call
C5_Witness ==
  /\ ReturnedFrom("findTransitsInRange")
  /\ call.args[2] = call.args[1]
  /\ oracle.failMode = "all"
  /\ result.value = <<>>

\* C6: getSampleTransits returns a non-empty list and does not throw, also
\* when the oracle throws on every call.
C6_SampleNonEmpty ==
  ReturnedFrom("getSampleTransits") => (~result.threw /\ Len(result.value) > 0)

\* the static catalog returned under an oracle that throws on every call
C6_Witness ==
  /\ ReturnedFrom("getSampleTransits")
  /\ oracle.failMode = "all"
  /\ Len(result.value) = 3

\* C7: a call returns what the same call returns in a process that made no
\* earlier call (same arguments, same now, same oracle).
C7_Stateless ==
  ReturnedFrom("findTransitsInRange") =>
    result = Returned(findTransitsInRange(startEnv, oracle, call.now, call.args[1],
                                          call.args[2], call.args[3]))

\* C8: every returned transit involves a planet of the given list.
C8_OnlyListedPlanets ==
  FindReturned =>
    \A k \in 1..Len(Transits) :
      \/ Transits[k].planetA \in Range(call.args[3])
      \/ Transits[k].planetB \in Range(call.args[3])

\* the angle between two longitudes, 0..180, whatever turn they are given in
C11_Separation(longitudeA, longitudeB) ==
  LET d == (longitudeA - longitudeB) % 360
  IN  IF d > 180 THEN 360 - d ELSE d

\* the distance of the separation from the exact angle of the aspect
C11_Residual == Abs(C11_Separation(call.args[1], call.args[2]) - ASPECT_ANGLES[call.args[3]])

\* the residual the tests mark as outside orb
C11_Outside(aspect) ==
  CASE aspect \in {"Conjunction", "Opposition"} -> 9
    [] aspect \in {"Square", "Trine"} -> 8
    [] aspect = "Sextile" -> 5

\* C11: checkAspect accepts a residual of 0 or 2 degrees for every aspect and
\* every pair, and for a pair without the Sun and the Moon it rejects a
\* residual of 9 (conjunction, opposition), 8 (square, trine), 5 (sextile).
C11_OrbBoundary ==
  ReturnedFrom("checkAspect") =>
    /\ C11_Residual \in {0, 2} => result.value = TRUE
    /\ (/\ call.args[4] \notin {"SUN", "MOON"}
        /\ call.args[5] \notin {"SUN", "MOON"}
        /\ C11_Residual = C11_Outside(call.args[3])) => result.value = FALSE

\* a sextile of two outer planets accepted at its orb of 2 degrees
C11_Witness ==
  /\ ReturnedFrom("checkAspect")
  /\ call.args[3] = "Sextile" /\ call.args[4] = "PLUTO" /\ call.args[5] = "PLUTO"
  /\ C11_Residual = 2
  /\ result.value = TRUE

C13_ThrowsIffNoPattern ==
  ReturnedFrom("generateTransitTypeId") =>
    (result.threw <=>
       /\ call.args[5] \notin {"Retrograde", "Station"}
       /\ ~(call.args[5] \in {"Ingress", "Transit"} /\ call.args[4] # UNDEFINED)
       /\ ~(call.args[2] # UNDEFINED /\ call.args[3] # UNDEFINED))

\* a single planet with subtype DIRECT has no id
C13_Witness ==
  /\ ReturnedFrom("generateTransitTypeId")
  /\ call.args = <<"MARS", UNDEFINED, UNDEFINED, UNDEFINED, TransitSubtype.DIRECT>>
  /\ result.threw

\* the arguments generateTransitTypeId makes the id from
C14_Generating(id) ==
  {g \in Planets \X (Planets \cup {UNDEFINED}) \X (Aspects \cup {UNDEFINED})
         \X TypeSigns \X TypeSubtypes :
     LET r == generateTransitTypeId(g[1], g[2], g[3], g[4], g[5])
     IN  ~r.threw /\ r.id = id}

\* the fields of the type are the ones of the pattern the id was made by
C14_SameFields(type, g) ==
  IF g[5] \in {"Retrograde", "Station"}
    THEN type.planetA = g[1] /\ type.subtype = g[5]
  ELSE IF g[5] \in {"Ingress", "Transit"} /\ g[4] # UNDEFINED
    THEN type.planetA = g[1] /\ type.sign = g[4] /\ type.subtype = g[5]
  ELSE /\ {type.planetA, type.planetB} = {g[1], g[2]}
       /\ type.aspect = g[3]
       /\ g[5] = TransitSubtype.STANDARD => type.subtype = g[5]

\* C14: for every id generateTransitTypeId produces, getTransitTypeById
\* returns a type, not null, with that id and with the planet(s), aspect,
\* sign and subtype of the pattern the id was generated by (the two planets
\* of an aspect up to order).
C14_RoundTrip ==
  (ReturnedFrom("getTransitTypeById") /\ call.args[1] \in GeneratedIds) =>
    /\ ~result.threw
    /\ result.value # NULL
    /\ result.value.id = call.args[1]
    /\ \A g \in C14_Generating(call.args[1]) : C14_SameFields(result.value, g)

\* the lookup of an ingress id
C14_Witness ==
  /\ ReturnedFrom("getTransitTypeById")
  /\ call.args[1] = <<"MOON", "INGRESS", "Gemini">>
  /\ ~result.threw
  /\ result.value.subtype = TransitSubtype.INGRESS
  /\ result.value.sign = "Gemini"

\* C15 as stated: whatever the order of the four moments, UPCOMING if
\* now < start, APPLYING if start <= now < exact, SEPARATING if now >= exact,
\* and never ACTIVE.
C15_TimingAsStated ==
  ReturnedFrom("determineTransitTiming") =>
    LET now == call.now
        exact == call.args[1]
        start == call.args[2]
    IN  /\ now < start => result.value = TransitTiming.UPCOMING
        /\ (start <= now /\ now < exact) => result.value = TransitTiming.APPLYING
        /\ (start <= now /\ now >= exact) => result.value = TransitTiming.SEPARATING
        /\ result.value # TransitTiming.ACTIVE

\* C15: determineTransitTiming returns UPCOMING if now < start, APPLYING if
\* start <= now <= end and now < exact, and SEPARATING in every other case
\* (now >= start, and now >= exact or now > end); it never returns ACTIVE.
C15_Timing ==
  ReturnedFrom("determineTransitTiming") =>
    LET now == call.now
        exact == call.args[1]
        start == call.args[2]
        end == call.args[3]
    IN  /\ now < start => result.value = TransitTiming.UPCOMING
        /\ (start <= now /\ now <= end /\ now < exact)
             => result.value = TransitTiming.APPLYING
        /\ (start <= now /\ (now >= exact \/ now > end))
             => result.value = TransitTiming.SEPARATING
        /\ result.value # TransitTiming.ACTIVE

\* a window that ended before now, with the exact moment still ahead
C15_Witness ==
  /\ ReturnedFrom("determineTransitTiming")
  /\ call.args[2] <= call.args[3] /\ call.args[3] < call.now
  /\ call.now < call.args[1]
  /\ result.value = TransitTiming.SEPARATING

\* C16: calculateIntensity returns a value in [0, 100]: 0 when now is outside
\* [start, end], 100 for a window of length zero that contains now, and
\* 100 * (1 - |now - exact| / (end - start)) clamped to [0, 100] inside a
\* window of positive length; every transit returned by findTransitsInRange
\* has an intensity in [0, 100].
C16_Intensity ==
  /\ ReturnedFrom("calculateIntensity") =>
       LET now == call.now
           exact == call.args[1]
           start == call.args[2]
           end == call.args[3]
           \* 100 * (1 - |now - exact| / (end - start)) = part / (end - start)
           part == 100 * (end - start) - 100 * Abs(now - exact)
           v == result.value
       IN  /\ v[2] > 0
           /\ 0 <= v[1] /\ v[1] <= 100 * v[2]
           /\ (now < start \/ now > end) => v[1] = 0
           /\ (start <= now /\ now <= end /\ start = end) => v[1] = 100 * v[2]
           /\ (start <= now /\ now <= end /\ start < end) =>
                IF part <= 0 THEN v[1] = 0
                ELSE IF part >= 100 * (end - start) THEN v[1] = 100 * v[2]
                ELSE v[1] * (end - start) = part * v[2]
  /\ FindReturned =>
       \A k \in 1..Len(Transits) :
         /\ Transits[k].intensity[2] > 0
         /\ 0 <= Transits[k].intensity[1]
         /\ Transits[k].intensity[1] <= 100 * Transits[k].intensity[2]

\* an intensity that is not a whole number, inside the window
C16_Witness ==
  /\ ReturnedFrom("calculateIntensity")
  /\ call.args[2] <= call.now /\ call.now <= call.args[3]
  /\ result.value[2] = 3

\* C17: getCurrentTransits(center, dayRange) returns what findTransitsInRange
\* returns for center - dayRange days, center + dayRange days and the full
\* planet set; for dayRange <= 0 that is the empty list, without an exception.
C17_CurrentIsRange ==
  ReturnedFrom("getCurrentTransits") =>
    LET center == call.args[1]
        dayRange == call.args[2]
    IN  /\ result = Returned(findTransitsInRange(nodeEnv, oracle, call.now,
                                                 center - dayRange * TicksPerDay,
                                                 center + dayRange * TicksPerDay,
                                                 Planet))
        /\ dayRange <= 0 => (~result.threw /\ result.value = <<>>)

\* a window of three days on each side, with transits in it
C17_Witness ==
  /\ ReturnedFrom("getCurrentTransits")
  /\ call.args[2] = 3 /\ call.args[1] = Day(95) + 1
  /\ ~result.threw /\ Len(result.value) > 0

\* the planets and the aspect of a record
C18_Is(t, planetA, aspect, planetB) ==
  /\ t.planetA = planetA /\ t.planetB = planetB /\ t.aspect = aspect
  /\ t.subtype = TransitSubtype.STANDARD

\* C18: getSampleTransits(date) returns the list of getCurrentTransits(date, 5)
\* unchanged when it has 3 transits or more; that list followed by Sun square
\* Mars and Venus trine Jupiter when it has fewer; and, when the oracle fails
\* on every call, exactly the static catalog Mercury conjunct Venus, Moon
\* opposite Saturn, Sun trine Jupiter.
C18_SampleOutcomes ==
  ReturnedFrom("getSampleTransits") =>
    LET real == getCurrentTransits(nodeEnv, oracle, call.now, call.args[1], 5)
        n == Len(real.value)
        v == result.value
    IN  /\ ~result.threw
        /\ (~real.threw /\ n >= 3) => v = real.value
        /\ (~real.threw /\ n < 3) =>
             /\ Len(v) = n + 2
             /\ SubSeq(v, 1, n) = real.value
             /\ C18_Is(v[n + 1], "SUN", "Square", "MARS")
             /\ C18_Is(v[n + 2], "VENUS", "Trine", "JUPITER")
        /\ oracle.failMode = "all" =>
             /\ Len(v) = 3
             /\ C18_Is(v[1], "MERCURY", "Conjunction", "VENUS")
             /\ C18_Is(v[2], "MOON", "Opposition", "SATURN")
             /\ C18_Is(v[3], "SUN", "Trine", "JUPITER")

\* fewer than 3 real transits, padded with the two illustrative records
C18_Witness ==
  /\ ReturnedFrom("getSampleTransits")
  /\ oracle.failMode # "all"
  /\ Len(result.value) \in 3..4
  /\ C18_Is(result.value[Len(result.value)], "VENUS", "Trine", "JUPITER")

\* a STANDARD record for this ordered pair and aspect
IsStandard(t, planetA, planetB, aspect) ==
  /\ t.subtype = TransitSubtype.STANDARD
  /\ t.planetA = planetA
  /\ t.planetB = planetB
  /\ t.aspect = aspect

\* checkAspect of the two planets' longitudes at a date (FALSE if the oracle fails)
AspectHoldsAt(planetA, planetB, aspect, date) ==
  LET positionA == getPlanetPositionAtDate(oracle, planetA, date)
      positionB == getPlanetPositionAtDate(oracle, planetB, date)
  IN  /\ ~positionA.threw
      /\ ~positionB.threw
      /\ checkAspect(positionA.longitude, positionB.longitude, aspect,
                     planetA, planetB)

\* C19: aspect pass (a): for a call with a valid range whose oracle calls all
\* succeed, every pair of requested planets and every aspect for which
\* checkAspect holds at 'now' has a STANDARD transit in the returned list,
\* whatever the planets' speeds are.
C19_ActiveAspectReported ==
  (FindReturned /\ oracle.failMode = "none"
   /\ ~invalidRange(call.args[1], call.args[2])) =>
    LET planets == call.args[3]
    IN  \A i, j \in 1..Len(planets) : \A k \in 1..Len(Aspect) :
          (i < j /\ AspectHoldsAt(planets[i], planets[j], Aspect[k], call.now)) =>
            \E m \in 1..Len(Transits) :
              IsStandard(Transits[m], planets[i], planets[j], Aspect[k])

\* the aspect state (checkAspect) at startDate and at endDate of the call
\* are both known and differ
AspectStateDiffers(planetA, planetB, aspect) ==
  LET known(date) == /\ ~getPlanetPositionAtDate(oracle, planetA, date).threw
                     /\ ~getPlanetPositionAtDate(oracle, planetB, date).threw
  IN  /\ known(call.args[1])
      /\ known(call.args[2])
      /\ AspectHoldsAt(planetA, planetB, aspect, call.args[1])
           # AspectHoldsAt(planetA, planetB, aspect, call.args[2])

\* C20: aspect pass (b) emits nothing spurious: a returned STANDARD transit
\* for a pair and aspect has its aspect holding at 'now' or its aspect state
\* at start different from the one at end; and for a planet list without
\* repeats no two returned STANDARD transits have the same pair and aspect.
C20_NothingSpurious ==
  FindReturned =>
    /\ \A m \in 1..Len(Transits) :
         Transits[m].subtype = TransitSubtype.STANDARD =>
           \/ AspectHoldsAt(Transits[m].planetA, Transits[m].planetB,
                            Transits[m].aspect, call.now)
           \/ AspectStateDiffers(Transits[m].planetA, Transits[m].planetB,
                                 Transits[m].aspect)
    /\ NoRepeats(call.args[3]) =>
         \A m, k \in 1..Len(Transits) :
           ( /\ Transits[m].subtype = TransitSubtype.STANDARD
             /\ Transits[k].subtype = TransitSubtype.STANDARD
             /\ {Transits[m].planetA, Transits[m].planetB}
                  = {Transits[k].planetA, Transits[k].planetB}
             /\ Transits[m].aspect = Transits[k].aspect ) => m = k

\* |separation - targetAngle| of the pair at sample i of the called search
C21_Residual(i) ==
  LET date == sampleDate(call.args[4], call.args[5], i, steps)
      a == getPlanetPositionAtDate(oracle, call.args[1], date).longitude
      b == getPlanetPositionAtDate(oracle, call.args[2], date).longitude
      d0 == Abs(a - b) % 360
  IN  Abs((IF d0 > 180 THEN 360 - d0 ELSE d0) - ASPECT_ANGLES[call.args[3]])

\* the samples the search examines: none before them is below 0.1
C21_Examined ==
  {i \in 0..steps : \A j \in 0..(i - 1) : 10 * C21_Residual(j) >= 1}

\* C21: findExactAspectDate examines the samples start + i*(end-start)/steps,
\* i = 0..steps, in order and stops after the first one whose residual is
\* below 0.1; it returns none if the smallest residual among the examined
\* samples exceeds 1.0 and otherwise the earliest examined sample with the
\* smallest residual; the returned moment is one of the grid samples.
C21_GridMinimum ==
  (ReturnedFrom("findExactAspectDate") /\ oracle.failMode = "none") =>
    LET best == CHOOSE i \in C21_Examined :
                  \A j \in C21_Examined :
                    \/ C21_Residual(i) < C21_Residual(j)
                    \/ C21_Residual(i) = C21_Residual(j) /\ i <= j
    IN  /\ ~result.threw
        /\ result.value =
             IF C21_Residual(best) > 1 THEN <<>>
             ELSE <<sampleDate(call.args[4], call.args[5], best, steps)>>

\* isRetrograde of the planet at a date (FALSE if the oracle fails)
RetrogradeAt(planet, date) ==
  LET position == getPlanetPositionAtDate(oracle, planet, date)
  IN  ~position.threw /\ isRetrograde(planet, position)

\* the oracle answers for the planet at startDate and endDate of the call
KnownAtEnds(planet) ==
  /\ ~getPlanetPositionAtDate(oracle, planet, call.args[1]).threw
  /\ ~getPlanetPositionAtDate(oracle, planet, call.args[2]).threw

\* a record of the station found in the range (the record of a planet that
\* is retrograde now has timing ACTIVE)
IsStation(t, planet) ==
  /\ t.planetA = planet
  /\ t.subtype \in {TransitSubtype.RETROGRADE, TransitSubtype.DIRECT}
  /\ t.timing # TransitTiming.ACTIVE

\* C22: when a requested planet's retrograde state at start differs from its
\* state at end, the station transit emitted for it has subtype RETROGRADE
\* exactly when the planet is entering retrograde (not retrograde at start,
\* retrograde at end) and DIRECT exactly when it is leaving retrograde.
C22_StationDirection ==
  FindReturned =>
    \A planet \in Range(call.args[3]) \cap RetrogradePlanets :
      \A m \in 1..Len(Transits) :
        (IsStation(Transits[m], planet) /\ KnownAtEnds(planet)
         /\ RetrogradeAt(planet, call.args[1]) # RetrogradeAt(planet, call.args[2])) =>
          Transits[m].subtype =
            IF RetrogradeAt(planet, call.args[2]) THEN TransitSubtype.RETROGRADE
                                                  ELSE TransitSubtype.DIRECT

\* C23: a body is retrograde exactly when its speed is negative: for each of
\* the 8 retrogradable planets and every speed s, isRetrograde(planet, s) is
\* s < 0, and getRetrogadeStatus of the position service is the same predicate.
C23_RetrogradeIsNegativeSpeed ==
  LET planet == call.args[1]
      speed == call.args[2]
  IN  /\ (ReturnedFrom("isRetrograde") /\ planet \in RetrogradePlanets) =>
           /\ result.value = (speed < 0)
           /\ result.value = getRetrogadeStatus(planet, 0, speed)
      /\ (ReturnedFrom("getRetrogadeStatus") /\ planet \in RetrogradePlanets) =>
           result.value = (speed < 0)

\* the planet moves backwards at a date: its oracle speed is negative
NegativeSpeedAt(planet, date) ==
  LET position == getPlanetPositionAtDate(oracle, planet, date)
  IN  ~position.threw /\ position.speed < 0

\* the half-cycle record of a planet that is retrograde at 'now'
C24_IsRetrogradeNow(t, planet) ==
  LET d == IF planet = "MERCURY" THEN 21
           ELSE IF planet \in {"VENUS", "MARS"} THEN 60 ELSE 120
  IN  /\ t.planetA = planet
      /\ t.subtype = TransitSubtype.RETROGRADE
      /\ t.transitTypeId = <<planet, "RETROGRADE">>
      /\ t.timing = TransitTiming.ACTIVE
      /\ t.intensity = <<100, 1>>
      /\ t.exactDate = call.now
      /\ t.startDate = call.now - (d \div 2) * TicksPerDay
      /\ t.endDate = call.now + (d - d \div 2) * TicksPerDay

\* C24: retrograde pass: for a call with a valid range whose oracle calls all
\* succeed, every requested planet among Mercury..Pluto that is retrograde
\* (has negative speed) at 'now' has a record with subtype RETROGRADE, id
\* '{planet}_RETROGRADE', timing ACTIVE, intensity 100, exactDate = now,
\* startDate = now - floor(d/2) days and endDate = now + ceil(d/2) days,
\* d = 21 for Mercury, 60 for Venus and Mars, 120 otherwise; and no record
\* with subtype RETROGRADE or DIRECT has the Sun or the Moon as its planet.
C24_RetrogradeNow ==
  FindReturned =>
    /\ (oracle.failMode = "none" /\ ~invalidRange(call.args[1], call.args[2])) =>
         \A planet \in Range(call.args[3]) \cap RetrogradePlanets :
           NegativeSpeedAt(planet, call.now) =>
             \E m \in 1..Len(Transits) : C24_IsRetrogradeNow(Transits[m], planet)
    /\ \A m \in 1..Len(Transits) :
         Transits[m].subtype \in {TransitSubtype.RETROGRADE, TransitSubtype.DIRECT}
           => Transits[m].planetA \notin {"SUN", "MOON"}

\* C25: Mercury guard: whenever Mercury is retrograde at 'now' and
\* findTransitsInRange returns, the result has at most one record with
\* planetA = MERCURY and subtype RETROGRADE, and no record with transitTypeId
\* 'MERCURY_STATION' and subtype DIRECT.
C25_MercuryGuard ==
  (FindReturned /\ RetrogradeAt("MERCURY", call.now)) =>
    /\ \A m, k \in 1..Len(Transits) :
         ( /\ Transits[m].planetA = "MERCURY"
           /\ Transits[m].subtype = TransitSubtype.RETROGRADE
           /\ Transits[k].planetA = "MERCURY"
           /\ Transits[k].subtype = TransitSubtype.RETROGRADE ) => m = k
    /\ \A m \in 1..Len(Transits) :
         ~ ( /\ Transits[m].transitTypeId = <<"MERCURY", "STATION">>
             /\ Transits[m].subtype = TransitSubtype.DIRECT )

\* the "currently in sign" record of the planet for sign S at 'now'
C26_IsSnapshot(t, planet, S) ==
  /\ t.planetA = planet
  /\ t.subtype = TransitSubtype.TRANSIT
  /\ t.sign = S
  /\ t.timing = TransitTiming.ACTIVE
  /\ t.intensity = <<100, 1>>
  /\ t.exactDate = call.now

\* C26: sign snapshot: for a call with a valid range, every requested planet
\* for which the oracle succeeds at 'now' has, whether or not an ingress falls
\* in the range, exactly one record with transitTypeId '{planet}_IN_{S}', S
\* being its zodiac sign at 'now'; that record has subtype TRANSIT, sign S,
\* timing ACTIVE, intensity 100 and exactDate = now.
C26_SignSnapshot ==
  (FindReturned /\ ~invalidRange(call.args[1], call.args[2])) =>
    \A planet \in Range(call.args[3]) :
      LET position == getPlanetPositionAtDate(oracle, planet, call.now)
          S == ZODIAC_BOUNDARIES[((position.longitude % 360) \div 30) + 1].sign
          snapshots == {m \in 1..Len(Transits) :
                          Transits[m].transitTypeId = <<planet, "IN", S>>}
      IN  ~position.threw =>
            /\ Cardinality(snapshots) = 1
            /\ \A m \in snapshots : C26_IsSnapshot(Transits[m], planet, S)

\* the zodiac sign of the planet at a date (the oracle answering)
SignAt(planet, date) ==
  getZodiacSign(getPlanetPositionAtDate(oracle, planet, date).longitude).sign

\* getZodiacSign finds a sign for the planet at a date
SignKnownAt(planet, date) ==
  ~getZodiacSign(getPlanetPositionAtDate(oracle, planet, date).longitude).threw

\* C27: ingress scan completeness: for a call whose oracle calls all succeed,
\* every requested planet and every k >= 1 with start + k days < end: if the
\* planet's sign at start + k days differs from its sign at start + (k-1)
\* days, the result has an INGRESS record for the planet with the new sign,
\* exactDate = start + k days, startDate 12 hours before and endDate 12 hours
\* after, also when the sign at end equals the sign at start and when the
\* planet enters the same sign more than once.
C27_IngressComplete ==
  (FindReturned /\ oracle.failMode = "none") =>
    LET start == call.args[1]
        end == call.args[2]
    IN  \A planet \in Range(call.args[3]) :
          \A k \in 1..((end - start) \div TicksPerDay) :
            ( /\ start + k * TicksPerDay < end
              /\ \A j \in 0..k : SignKnownAt(planet, start + j * TicksPerDay)
              /\ SignKnownAt(planet, end)
              /\ SignAt(planet, start + k * TicksPerDay)
                   # SignAt(planet, start + (k - 1) * TicksPerDay) ) =>
              \E m \in 1..Len(Transits) :
                /\ Transits[m].subtype = TransitSubtype.INGRESS
                /\ Transits[m].planetA = planet
                /\ Transits[m].sign = SignAt(planet, start + k * TicksPerDay)
                /\ Transits[m].exactDate = start + k * TicksPerDay
                /\ Transits[m].startDate = start + k * TicksPerDay - TWELVE_HOURS
                /\ Transits[m].endDate = start + k * TicksPerDay + TWELVE_HOURS

\* C30: sign determination is total: for every longitude the oracle delivers
\* for a requested planet at 'now' (negative values and values >= 360
\* included), the position is normalized into [0,360) and getZodiacSign
\* returns the sign whose 30-degree band contains it, so the sign step of
\* findTransitsInRange never fails to determine a sign.
C30_SignTotal ==
  (ReturnedFrom("findTransitsInRange")
   /\ ~invalidRange(call.args[1], call.args[2])) =>
    \A planet \in Range(call.args[3]) :
      LET position == getPlanetPositionAtDate(oracle, planet, call.now)
          band == ((calcLongitude(oracle, planet, call.now) % 360) \div 30) + 1
      IN  ~position.threw =>
            /\ position.longitude \in 0..359
            /\ getZodiacSign(position.longitude)
                 = [threw |-> FALSE, sign |-> ZodiacSign[band]]

\* the record's window is the calendar day of exactDate, extended by
\* before days backward from 00:00:00.000 and after days forward from 23:59:59.999
C28_Window(t, before, after) ==
  LET midnight == (t.exactDate \div TicksPerDay) * TicksPerDay
  IN  /\ t.startDate = midnight - before * TicksPerDay
      /\ t.endDate = midnight + (TicksPerDay - 1) + after * TicksPerDay

\* floor(w) and ceil(w) for w = 0.5 if either body is the Moon, otherwise 5
\* if either body is in slow, otherwise 2
C28_WindowFor(t, slow) ==
  IF t.planetA = "MOON" \/ t.planetB = "MOON" THEN C28_Window(t, 0, 1)
  ELSE IF t.planetA \in slow \/ t.planetB \in slow THEN C28_Window(t, 5, 5)
  ELSE C28_Window(t, 2, 2)

InLoop == pc \in {"ingressScan", "exactSearch", "stationSearch"}

\* the samples taken so far by the loop of the call stay within its bound,
\* and the scan's check date is startDate plus one day per sample taken
C29_Bounded ==
  /\ call.op \in {"exactSearch", "stationSearch"} => frame.samples <= steps + 1
  /\ call.op = "ingressScan" =>
       frame.samples <= Ceil(call.args[3] - call.args[2], TicksPerDay)
  /\ pc = "ingressScan" =>
       frame.checkDate = call.args[2] + frame.samples * TicksPerDay

\* C29: the loops of findTransitsInRange terminate when every oracle call
\* returns or fails: the exact-moment and station searches take at most
\* steps + 1 samples each, the ingress scan advances its check date by one
\* day per iteration and takes at most ceil((end - start) / 1 day) samples,
\* and every loop entered is left.
C29_Terminates ==
  /\ []C29_Bounded
  /\ InLoop ~> (pc = "returned")

\* an ingress scan over 28 days left by its loop condition after 28 samples
C29_Witness ==
  /\ pc = "returned"
  /\ call.op = "ingressScan"
  /\ ~result.threw
  /\ frame.samples = 28
  /\ frame.samples = Ceil(call.args[3] - call.args[2], TicksPerDay)

====
